---- MODULE Spec2Model ----
(***************************************************************************)
(* Model of the browser-side error collector                               *)
(* (flask_error_tracker/static/error-collector.js), of the debug button    *)
(* (flask_error_tracker/static/debug-button.js), and of the server's       *)
(* ingestion endpoint and deduplication store.                             *)
(*                                                                         *)
(* The collector is an IIFE: every execution of the script creates a new   *)
(* closure (an "instance") with its own consoleLogs and pendingErrors and  *)
(* wraps whatever console / fetch bindings it finds.  Instance i is the    *)
(* closure created by the i-th execution of the script in the page.        *)
(* The page runs on a single-threaded event loop: every action below is    *)
(* one task or microtask and runs to completion.                           *)
(***************************************************************************)
EXTENDS Integers, Sequences, FiniteSets, TLC

(* ------------------------------ bounds --------------------------------- *)
MaxLoads == 2
MaxReports == 2
MaxConsoleCalls == 1
MaxFetch == 1
MaxRingCalls == 52
MaxRingErrors == 1
MaxBurst == 51
MaxCaptures == 2
MaxToasts == 2
MaxWorkers == 2
MaxRecords == 3
MaxBatch == 2
MaxDebugEntries == 4
MaxQueued == 2
MaxDebugLoads == 2
SmallMaxLogs == 1

(* ------------------------- program constants --------------------------- *)
ERROR_ENDPOINT == "/api/log-frontend-error"
MAX_CONSOLE_LOGS == 50
SnapshotLen == 20
BodyExcerptLen == 500
DefaultMaxLogs == 500

Inst == 1..MaxLoads

(* absent JavaScript values (undefined / null / a missing property) *)
NoVal == "undefined"
NoNum == 0 - 1

VARIABLES
  loads,          \* number of times the collector script has run in this page
  consoleLogs,    \* consoleLogs[i]: the console ring buffer of instance i
  pendingErrors,  \* pendingErrors[i]: the pending-report list of instance i
  captured,       \* history: every entry instance i ever captured, in call order
  sent,           \* history: every transport invocation (sendBeacon / fallback fetch)
  nextId,         \* history: number of reports queued so far (stamps report ids)
  calls,          \* the fetch calls made through window.fetch or by the fallback send
  nativeConsole,  \* history: number of calls that reached the browser's own console
  hasBeacon,      \* whether navigator.sendBeacon exists in this browser
  windowOnerror,  \* the function bound to window.onerror
  showToast,      \* the binding of window.showToast: the host function and its wrappers
  domReady,       \* whether DOMContentLoaded has fired
  hostCalls,      \* history: how often the host's own onerror handler and toast function ran
  last,           \* history: the handler that ran last, and what it found
  groups,         \* server: the ErrorGroup rows of the deduplication store
  occurrences,    \* server: the ErrorOccurrence rows, in insertion order
  storeClock,     \* server: the store's clock (stamps firstSeen / lastSeen / occurredAt)
  recordCalls,    \* server: recordCalls[w] is the report worker w is recording, if any
  completed,      \* history: recordError calls completed per fingerprint since its group was created
  response,       \* server: the ingestion endpoint's answer to the last request
  storeLast,      \* history: the store operation that ran last, and the store before it
  debugButtonLoaded, \* debug button: window.__debugButtonLoaded
  cfg,            \* debug button: the defaults merged with window.DEBUG_BUTTON_CONFIG
  errorLog,       \* debug button: the error log
  consoleLog,     \* debug button: the console log
  errorCount,     \* debug button: the number shown on the badge
  fabEl,          \* debug button: the floating button element
  uiReady,        \* debug button: whether buildUI has finished
  initPending,    \* debug button: whether init waits for DOMContentLoaded
  debugInstalls,  \* debug button: how often the script body got past its guard
  debugCon,       \* debug button: _con, as the number of collector wrappers it holds
  fabOpen,        \* debug button: whether the action tray of the FAB is expanded
  modalShown,     \* debug button: whether the log modal's overlay is shown
  debugHist       \* history: entries and events since the logs were last cleared, script runs

collectorVars == <<loads, consoleLogs, pendingErrors, captured, sent, nextId, calls,
                   nativeConsole, hasBeacon, windowOnerror, showToast, domReady, hostCalls, last>>

storeVars == <<groups, occurrences, storeClock, recordCalls, completed, response, storeLast>>

debugVars == <<debugButtonLoaded, cfg, errorLog, consoleLog, errorCount, fabEl, uiReady,
               initPending, debugInstalls, debugCon, fabOpen, modalShown, debugHist>>

vars == <<collectorVars, storeVars, debugVars>>

(* ------------------------------ helpers -------------------------------- *)
Min(a, b) == IF a < b THEN a ELSE b

Max(a, b) == IF a > b THEN a ELSE b

(* Array.prototype.slice(-n): the last n elements (all of them if fewer) *)
SliceLast(s, n) == SubSeq(s, Max(1, Len(s) - n + 1), Len(s))

(* Array.prototype.shift(): drops the first element *)
Shift(s) == Tail(s)

(* the memory the handlers read and write, as one record.  Of the running      *)
(* handler: exc is the exception it has thrown, ret the value it returns to    *)
(* its caller, uncaught the number of exceptions the browser reported for it,  *)
(* input the arguments it was called with and forwarded the argument lists     *)
(* that reached the browser's own console                                      *)
Cur ==
  [consoleLogs |-> consoleLogs, pendingErrors |-> pendingErrors,
   captured |-> captured, sent |-> sent, nextId |-> nextId, calls |-> calls,
   nativeConsole |-> nativeConsole, loads |-> loads,
   windowOnerror |-> windowOnerror, showToast |-> showToast, domReady |-> domReady,
   hostCalls |-> hostCalls, exc |-> NoVal, ret |-> NoVal, uncaught |-> 0,
   input |-> <<>>, forwarded |-> <<>>]

(* --------------------------- console capture --------------------------- *)
(* a console argument: text is what String(a) gives and json what            *)
(* JSON.stringify(a) gives, NoVal where the conversion throws.  A string, a   *)
(* plain object, an object with a reference cycle, and an object with a cycle *)
(* and no prototype (Object.create(null)), which has no toString to fall back *)
(* on, so that String(a) throws a TypeError as well                           *)
StrArg(t) == [kind |-> "string", text |-> t, json |-> NoVal]

ObjArg(j) == [kind |-> "object", text |-> "[object Object]", json |-> j]

CircularArg == [kind |-> "circular", text |-> "[object Object]", json |-> NoVal]

BareCircularArg == [kind |-> "bare-circular", text |-> NoVal, json |-> NoVal]

(* typeof a === "object" *)
TypeofObject(a) == a.kind # "string"

(* try { typeof a === "object" ? JSON.stringify(a) : String(a) } catch { String(a) } *)
SerializeArg(a) ==
  IF TypeofObject(a) /\ a.json # NoVal THEN a.json
  ELSE a.text

(* the catch clause's own String(a) throws: nothing catches that *)
SerializeThrows(a) == SerializeArg(a) = NoVal

RECURSIVE JoinArgs(_)
JoinArgs(args) ==
  IF Len(args) = 0 THEN ""
  ELSE IF Len(args) = 1 THEN SerializeArg(args[1])
  ELSE SerializeArg(args[1]) \o " " \o JoinArgs(Tail(args))

(* a report before enrichment: the object literal handed to reportError *)
ErrorData(type, message, source) ==
  [error_type |-> type, error_message |-> message, source |-> source,
   request_url |-> NoVal, http_status |-> NoNum, response_body |-> NoNum,
   extra_data |-> NoVal, cause |-> 0]

IsCritical(errorData) ==
  errorData.error_type = "JavaScriptError" \/ errorData.error_type = "UnhandledPromiseRejection"

Splice0_Reversed(s, n) ==
  [removed |-> [j \in 1..Min(n, Len(s)) |-> s[Min(n, Len(s)) + 1 - j]],
   rest |-> SubSeq(s, Min(n, Len(s)) + 1, Len(s))]

(* Array.prototype.splice(0, n): removes the first n elements and returns them *)
Splice0(s, n) ==
  [removed |-> SubSeq(s, 1, Min(n, Len(s))), rest |-> SubSeq(s, Min(n, Len(s)) + 1, Len(s))]

(* JSON.stringify({ errors: batch }) *)
WrapBatch(batch) == [errors |-> batch]

(* the extra argument of ErrorCollector.report: a plain object, or an object *)
(* JSON.stringify throws on (a reference cycle, a BigInt)                    *)
PlainExtra == "extra"

CircularExtra == "circular"

(* whether JSON.stringify({ errors: batch }) returns: it throws a TypeError *)
(* when a report of the batch carries a value it cannot serialize           *)
Serializable(batch) == \A j \in 1..Len(batch) : batch[j].extra_data # CircularExtra

(* what a fetch promise settles with: a Response or an error *)
NoResult ==
  [kind |-> "none", status |-> NoNum, cloneable |-> FALSE, readable |-> FALSE,
   bodyLen |-> NoNum, name |-> NoVal, message |-> NoVal]

Response(status, cloneable, readable, bodyLen) ==
  [kind |-> "response", status |-> status, cloneable |-> cloneable, readable |-> readable,
   bodyLen |-> bodyLen, name |-> NoVal, message |-> NoVal]

FetchErr(name, message) ==
  [kind |-> "error", status |-> NoNum, cloneable |-> FALSE, readable |-> FALSE,
   bodyLen |-> NoNum, name |-> name, message |-> message]

Unsettled == [st |-> "inflight", val |-> NoResult]

(* the first argument of fetch: a string, an object with a url property (a *)
(* Request) or an object without one (a URL object)                        *)
StringInput(href) == [kind |-> "string", href |-> href, url |-> NoVal]

RequestInput(href) == [kind |-> "request", href |-> href, url |-> href]

UrlObjectInput(href) == [kind |-> "other", href |-> href, url |-> NoVal]

(* the fallback send: originalFetch(ERROR_ENDPOINT, {...}).catch(() => {}).     *)
(* originalFetch of instance i is the fetch binding instance i found when it    *)
(* loaded: the browser's fetch for instance 1, the wrapper of instance i-1 else *)
FallbackCall(i, sentIdx) ==
  [owner |-> "flush", sentIdx |-> sentIdx, input |-> StringInput(ERROR_ENDPOINT),
   depth |-> i - 1, pos |-> 0, st |-> "inflight", val |-> NoResult,
   orig |-> Unsettled, reads |-> [k \in Inst |-> "none"], seen |-> Unsettled,
   seenReports |-> 0]

flushErrors_KeepsPending(m, i, beaconOk) ==
  IF Len(m.pendingErrors[i]) = 0 THEN m
  ELSE [m EXCEPT !.sent = Append(@, [inst |-> i, via |-> "sendBeacon",
                                     body |-> WrapBatch(m.pendingErrors[i]),
                                     outcome |-> "queued"])]

flushErrors_SendsEmpty(m, i, beaconOk) ==
  [m EXCEPT !.pendingErrors[i] = <<>>,
            !.sent = Append(@, [inst |-> i, via |-> "sendBeacon",
                                body |-> WrapBatch(m.pendingErrors[i]),
                                outcome |-> "queued"])]

flushErrors_Requeues(m, i, beaconOk) ==
  IF Len(m.pendingErrors[i]) = 0 THEN m
  ELSE [m EXCEPT !.pendingErrors[i] = IF beaconOk THEN <<>> ELSE @,
                 !.sent = Append(@, [inst |-> i, via |-> "sendBeacon",
                                     body |-> WrapBatch(m.pendingErrors[i]),
                                     outcome |-> IF beaconOk THEN "queued" ELSE "refused"])]

flushErrors_SendsFirstOnly(m, i, beaconOk) ==
  IF Len(m.pendingErrors[i]) = 0 THEN m
  ELSE [m EXCEPT !.pendingErrors[i] = Tail(@),
                 !.sent = Append(@, [inst |-> i, via |-> "sendBeacon",
                                     body |-> WrapBatch(<<m.pendingErrors[i][1]>>),
                                     outcome |-> "queued"])]

flushErrors(m, i, beaconOk) ==
  IF Len(m.pendingErrors[i]) = 0 THEN m
  ELSE LET sp == Splice0(m.pendingErrors[i], Len(m.pendingErrors[i]))
           batch == sp.removed
           drained == [m EXCEPT !.pendingErrors[i] = sp.rest]
       IN IF ~Serializable(batch) THEN [drained EXCEPT !.exc = "TypeError"]
          ELSE IF hasBeacon
          THEN [drained EXCEPT !.sent = Append(@,
                  [inst |-> i, via |-> "sendBeacon", body |-> WrapBatch(batch),
                   outcome |-> IF beaconOk THEN "queued" ELSE "refused"])]
          ELSE [drained EXCEPT !.sent = Append(@,
                  [inst |-> i, via |-> "fetch", body |-> WrapBatch(batch),
                   outcome |-> "inflight"]),
                               !.calls = Append(@, FallbackCall(i, Len(m.sent) + 1))]

(* id, inst and logsAt are history stamps of a report: its rank among the     *)
(* reports queued, the instance that queued it and the number of console      *)
(* entries that instance had captured by then                                 *)
reportError_SnapshotsWholeRing(m, i, errorData, beaconOk) ==
  LET queued == [m EXCEPT !.pendingErrors[i] = Append(@,
                    [id |-> m.nextId + 1, inst |-> i, logsAt |-> Len(m.captured[i]),
                     console_logs |-> m.consoleLogs[i]]
                    @@ errorData),
                          !.nextId = @ + 1]
  IN IF IsCritical(errorData) THEN flushErrors(queued, i, beaconOk) ELSE queued

reportError_AlwaysFlushes(m, i, errorData, beaconOk) ==
  LET queued == [m EXCEPT !.pendingErrors[i] = Append(@,
                    [id |-> m.nextId + 1, inst |-> i, logsAt |-> Len(m.captured[i]),
                     console_logs |-> SliceLast(m.consoleLogs[i], SnapshotLen)]
                    @@ errorData),
                          !.nextId = @ + 1]
  IN flushErrors(queued, i, beaconOk)

reportError(m, i, errorData, beaconOk) ==
  LET queued == [m EXCEPT !.pendingErrors[i] = Append(@,
                    [id |-> m.nextId + 1, inst |-> i, logsAt |-> Len(m.captured[i]),
                     console_logs |-> SliceLast(m.consoleLogs[i], SnapshotLen)]
                    @@ errorData),
                          !.nextId = @ + 1]
  IN IF IsCritical(errorData) THEN flushErrors(queued, i, beaconOk) ELSE queued

(* an entry's seq stands for its timestamp / timeSinceLoad: the position of the *)
(* call among the calls the instance captured                                  *)
captureConsoleLog_EvictsNewest(m, i, type, args, beaconOk) ==
  LET entry == [type |-> type, message |-> JoinArgs(args), seq |-> Len(m.captured[i]) + 1]
      pushed == Append(m.consoleLogs[i], entry)
      kept == IF Len(pushed) > MAX_CONSOLE_LOGS THEN SubSeq(pushed, 1, Len(pushed) - 1) ELSE pushed
      logged == [m EXCEPT !.consoleLogs[i] = kept, !.captured[i] = Append(@, entry)]
  IN IF type = "error"
     THEN reportError(logged, i, ErrorData("ConsoleError", entry.message, "console.error"), beaconOk)
     ELSE logged

captureConsoleLog(m, i, type, args, beaconOk) ==
  LET entry == [type |-> type, message |-> JoinArgs(args), seq |-> Len(m.captured[i]) + 1]
      pushed == Append(m.consoleLogs[i], entry)
      kept == IF Len(pushed) > MAX_CONSOLE_LOGS THEN Shift(pushed) ELSE pushed
      logged == [m EXCEPT !.consoleLogs[i] = kept, !.captured[i] = Append(@, entry)]
  IN IF \E j \in 1..Len(args) : SerializeThrows(args[j])
     THEN [m EXCEPT !.exc = "TypeError"]
     ELSE IF type = "error"
     THEN reportError(logged, i, ErrorData("ConsoleError", entry.message, "console.error"), beaconOk)
     ELSE logged

(* console[type] as bound after `top` loads: the wrapper of instance top calls *)
(* captureConsoleLog and then originalConsole[type], which is the wrapper of   *)
(* instance top-1, down to the browser's console; an exception thrown by       *)
(* captureConsoleLog leaves the wrapper before originalConsole is called       *)
consoleWrapper_SkipsOriginal(m, top, type, args, beaconOk) ==
  IF top = 0 THEN m
  ELSE captureConsoleLog(m, top, type, args, beaconOk)

RECURSIVE consoleWrapper(_, _, _, _, _)
consoleWrapper(m, top, type, args, beaconOk) ==
  IF top = 0 THEN [m EXCEPT !.nativeConsole = @ + 1, !.forwarded = Append(@, args)]
  ELSE LET logged == captureConsoleLog(m, top, type, args, beaconOk)
       IN IF logged.exc # NoVal THEN logged
          ELSE consoleWrapper(logged, top - 1, type, args, beaconOk)

(* ----------------------------- handlers -------------------------------- *)
(* window.onerror = function (message, source, lineno, colno, error) {...}:   *)
(* an assignment, so the handler of the instance loaded last is the one bound *)
onerrorHandler(m, i, message, errName, beaconOk) ==
  reportError(m, i,
    [ErrorData(IF errName # NoVal THEN errName ELSE "JavaScriptError", message, "window.onerror")
       EXCEPT !.extra_data = IF errName # NoVal THEN "stack" ELSE "nostack"],
    beaconOk)

(* the binding of window.onerror before the collector loads: a handler the host *)
(* page registered                                                              *)
HostOnerror == [owner |-> "host", inst |-> 0]

(* window.onerror = function (...) {...} as executed by instance i: a plain      *)
(* assignment, whatever was bound before is dropped                              *)
assignOnerror(prev, i) == [owner |-> "collector", inst |-> i]

(* the browser reports an uncaught exception to the function bound to          *)
(* window.onerror; the collector's handler returns false                       *)
dispatchOnerror(m, message, errName, beaconOk) ==
  IF m.windowOnerror.owner = "host"
  THEN [m EXCEPT !.hostCalls.onerror = @ + 1]
  ELSE [onerrorHandler(m, m.windowOnerror.inst, message, errName, beaconOk)
          EXCEPT !.ret = "false"]

(* an exception that leaves a timer callback or an event listener is reported *)
(* by the browser as an uncaught exception                                    *)
reportException(m, beaconOk) ==
  IF m.exc = NoVal THEN m
  ELSE dispatchOnerror([m EXCEPT !.exc = NoVal, !.uncaught = @ + 1],
                       "Uncaught TypeError: Converting circular structure to JSON",
                       m.exc, beaconOk)

(* the unhandledrejection listener of instance i *)
rejectionHandler(m, i, reason, beaconOk) ==
  reportError(m, i,
    [ErrorData("UnhandledPromiseRejection",
               IF reason # NoVal THEN reason ELSE "Promise rejected", "unhandledrejection")
       EXCEPT !.extra_data = IF reason # NoVal THEN "stack" ELSE "nostack"],
    beaconOk)

(* listeners added with addEventListener run for every instance, oldest first *)
RECURSIVE rejectionListeners(_, _, _, _, _)
rejectionListeners(m, i, top, reason, beaconOk) ==
  IF i > top THEN m
  ELSE rejectionListeners(reportException(rejectionHandler(m, i, reason, beaconOk), beaconOk),
                          i + 1, top, reason, beaconOk)

RECURSIVE flushListeners(_, _, _, _)
flushListeners(m, i, top, beaconOk) ==
  IF i > top THEN m
  ELSE flushListeners(reportException(flushErrors(m, i, beaconOk), beaconOk), i + 1, top, beaconOk)

timerTask_Idle(m, i, beaconOk) == m

(* the callback of setInterval(flushErrors, BATCH_INTERVAL) of instance i *)
timerTask(m, i, beaconOk) == reportException(flushErrors(m, i, beaconOk), beaconOk)

(* ErrorCollector.report(type, message, extra) *)
manualReport(m, i, type, message, extra, beaconOk) ==
  reportError(m, i, [ErrorData(type, message, "manual") EXCEPT !.extra_data = extra], beaconOk)

(* ------------------------------ toast hook ------------------------------ *)
(* window.showToast is absent until the host page defines it; wrappers lists *)
(* the instances whose wrapper is around the host function, innermost first  *)
NoToast == [defined |-> FALSE, wrappers |-> <<>>]

(* the host page assigns its notification function to window.showToast *)
hostDefinesToast(m) == [m EXCEPT !.showToast = [defined |-> TRUE, wrappers |-> <<>>]]

(* what the host's showToast returns for its arguments *)
HostToastResult(type, title, message) == "toast(" \o type \o ", " \o title \o ", " \o message \o ")"

captureToastError_AnyLevel(m, i, type, title, message, beaconOk) ==
  reportError(m, i, [ErrorData("ToastError", title \o ": " \o message, "toast")
                       EXCEPT !.extra_data = type], beaconOk)

(* window.captureToastError = function (type, title, message) {...} *)
captureToastError(m, i, type, title, message, beaconOk) ==
  IF type = "error" \/ type = "warning"
  THEN reportError(m, i, [ErrorData("ToastError", title \o ": " \o message, "toast")
                            EXCEPT !.extra_data = type], beaconOk)
  ELSE m

(* the DOMContentLoaded listener of instance i *)
wrapToast(m, i) ==
  IF m.showToast.defined THEN [m EXCEPT !.showToast.wrappers = Append(@, i)]
  ELSE m

RECURSIVE domContentLoaded(_, _, _)
domContentLoaded(m, i, top) ==
  IF i > top THEN [m EXCEPT !.domReady = TRUE]
  ELSE domContentLoaded(wrapToast(m, i), i + 1, top)

(* a call of window.showToast(type, title, message), entered at wrapper layer k *)
(* (k = 0 is the host function): each wrapper calls window.captureToastError,  *)
(* which is the function the instance loaded last has assigned, and then       *)
(* returns orig.apply(this, arguments)                                         *)
RECURSIVE toastCall(_, _, _, _, _, _)
toastCall(m, k, type, title, message, beaconOk) ==
  IF k = 0
  THEN [m EXCEPT !.hostCalls.toast = @ + 1, !.ret = HostToastResult(type, title, message)]
  ELSE toastCall(captureToastError(m, m.loads, type, title, message, beaconOk),
                 k - 1, type, title, message, beaconOk)

(* ------------------------------ fetch wrap ------------------------------ *)
(* window.fetch as bound after `depth` loads is the wrapper of instance depth *)
(* around the wrapper of instance depth-1 ... around the browser's fetch.     *)
(* A call walks the promise chain outwards: pos = 0 is the browser's promise, *)
(* pos = 2k-1 the promise of layer k's .then(...), pos = 2k the promise of    *)
(* layer k's .catch(...), and pos = 2*depth the promise the caller holds.     *)
AppCall(input, depth) ==
  [owner |-> "app", sentIdx |-> 0, input |-> input, depth |-> depth, pos |-> 0,
   st |-> "inflight", val |-> NoResult, orig |-> Unsettled,
   reads |-> [k \in Inst |-> "none"], seen |-> Unsettled, seenReports |-> 0]

(* Response.ok: status in the range 200-299 *)
Ok(r) == r.status >= 200 /\ r.status <= 299

(* what Response.clone() throws when the body was already used *)
CloneTypeError == FetchErr("TypeError", "Response body is already used")

(* typeof url === "string" ? url : url.url *)
RequestUrlThen(input) == IF input.kind = "string" THEN input.href ELSE input.url

(* typeof url === "string" ? url : url.url || "unknown" *)
RequestUrlCatch(input) ==
  IF input.kind = "string" THEN input.href
  ELSE IF input.url # NoVal THEN input.url ELSE "unknown"

(* String.prototype.substring(0, n) of a string of the given length *)
SubstringLen(len, n) == Min(len, n)

thenCallback_ReportsEveryNotOk(m, c, k) ==
  LET call == m.calls[c]
      r == call.val
  IN IF call.st = "resolved" /\ ~Ok(r)
     THEN IF r.cloneable
          THEN [m EXCEPT !.calls[c].reads[k] = "reading", !.calls[c].pos = @ + 1]
          ELSE [m EXCEPT !.calls[c].st = "rejected", !.calls[c].val = CloneTypeError,
                         !.calls[c].pos = @ + 1]
     ELSE [m EXCEPT !.calls[c].pos = @ + 1]

(* the callback of layer k's .then(response => {...}): starts the detached body *)
(* read for an error status and returns the response; a rejection passes by     *)
thenCallback(m, c, k) ==
  LET call == m.calls[c]
      r == call.val
  IN IF call.st = "resolved" /\ ~Ok(r) /\ r.status >= 400
     THEN IF r.cloneable
          THEN [m EXCEPT !.calls[c].reads[k] = "reading", !.calls[c].pos = @ + 1]
          ELSE [m EXCEPT !.calls[c].st = "rejected", !.calls[c].val = CloneTypeError,
                         !.calls[c].pos = @ + 1]
     ELSE [m EXCEPT !.calls[c].pos = @ + 1]

catchCallback_DropsReport(m, c, k, beaconOk) ==
  [m EXCEPT !.calls[c].pos = @ + 1]

(* the callback of layer k's .catch(error => {...}): reports and rethrows *)
catchCallback(m, c, k, beaconOk) ==
  LET call == m.calls[c]
      e == call.val
  IN IF call.st = "rejected"
     THEN [reportError(m, k,
             [ErrorData("FetchError",
                        IF e.message # "" THEN e.message ELSE "Network request failed",
                        "fetch")
                EXCEPT !.request_url = RequestUrlCatch(call.input),
                       !.extra_data = "stack", !.cause = c],
             beaconOk)
           EXCEPT !.calls[c].pos = @ + 1]
     ELSE [m EXCEPT !.calls[c].pos = @ + 1]

(* response.clone().text().then(body => reportError({...})).catch(() => {}) *)
bodyCallback(m, c, k, beaconOk) ==
  LET call == m.calls[c]
      r == call.orig.val
  IN IF r.readable
     THEN [reportError(m, k,
             [ErrorData("HTTP" \o ToString(r.status),
                        "Fetch failed: " \o ToString(r.status), "fetch")
                EXCEPT !.request_url = RequestUrlThen(call.input),
                       !.http_status = r.status,
                       !.response_body = SubstringLen(r.bodyLen, BodyExcerptLen),
                       !.cause = c],
             beaconOk)
           EXCEPT !.calls[c].reads[k] = "done"]
     ELSE [m EXCEPT !.calls[c].reads[k] = "done"]

fallbackSettled_Resends(m, c, beaconOk) ==
  [m EXCEPT !.calls[c].seen = [st |-> m.calls[c].st, val |-> m.calls[c].val],
            !.sent[m.calls[c].sentIdx].outcome =
                IF m.calls[c].st = "resolved" THEN "delivered" ELSE "failed",
            !.pendingErrors[m.sent[m.calls[c].sentIdx].inst] =
                IF m.calls[c].st = "resolved" THEN @
                ELSE m.sent[m.calls[c].sentIdx].body.errors \o @]

(* the final .catch(() => {}) of the fallback send swallows a rejection *)
fallbackSettled(m, c, beaconOk) ==
  [m EXCEPT !.calls[c].seen = [st |-> m.calls[c].st, val |-> m.calls[c].val],
            !.sent[m.calls[c].sentIdx].outcome =
                IF m.calls[c].st = "resolved" THEN "delivered" ELSE "failed"]

(* history: the reports queued for fetch call c that are pending or were sent *)
ReportsFor(m, c) ==
  UNION {{r \in {m.pendingErrors[i][j] : j \in 1..Len(m.pendingErrors[i])} : r.cause = c}
           : i \in Inst}
    \cup UNION {{r \in {m.sent[k].body.errors[j] : j \in 1..Len(m.sent[k].body.errors)}
                   : r.cause = c} : k \in 1..Len(m.sent)}

(* the continuation of the code that called window.fetch: it receives what the *)
(* outermost promise settled with                                              *)
callerContinuation(m, c) ==
  [m EXCEPT !.calls[c].seen = [st |-> m.calls[c].st, val |-> m.calls[c].val],
            !.calls[c].seenReports = Cardinality(ReportsFor(m, c))]

(* the promise reactions of one call, innermost wrapper first, then the holder *)
(* of the outermost promise: they are microtasks of the same checkpoint, so no *)
(* timer or event handler runs in between                                      *)
RECURSIVE runReactions(_, _, _)
runReactions(m, c, beaconOk) ==
  LET call == m.calls[c]
  IN IF call.pos = 2 * call.depth
     THEN IF call.owner = "app" THEN callerContinuation(m, c)
          ELSE fallbackSettled(m, c, beaconOk)
     ELSE IF call.pos % 2 = 0
          THEN runReactions(thenCallback(m, c, call.pos \div 2 + 1), c, beaconOk)
          ELSE runReactions(catchCallback(m, c, (call.pos + 1) \div 2, beaconOk), c, beaconOk)

(* the browser's fetch promise settles and its reactions run *)
networkSettle(m, c, st, val, beaconOk) ==
  runReactions([m EXCEPT !.calls[c].st = st, !.calls[c].val = val,
                         !.calls[c].orig = [st |-> st, val |-> val]], c, beaconOk)

(* --------------------------- state machine ----------------------------- *)
(* the script's last statement, originalConsole.info("[ErrorCollector] ..."): *)
(* originalConsole is the console the loading instance found, so from the     *)
(* second load on the banner goes through the wrappers already installed      *)
Banner == <<StrArg("[ErrorCollector] Frontend error tracking active")>>

loadScript(m, beaconOk) ==
  [consoleWrapper(m, m.loads, "info", Banner, beaconOk)
     EXCEPT !.loads = @ + 1, !.windowOnerror = assignOnerror(@, m.loads + 1)]

(* ======================= deduplication store (server) ======================= *)
(* The store and the ingestion endpoint run on the server                       *)
(* (flask_error_tracker/database.py and blueprint.py).  Requests are served by  *)
(* concurrent workers; the store's operations are the units of interleaving.    *)

Workers == 1..MaxWorkers

(* a message is a sequence of pieces: root text, and the pieces that vary from  *)
(* run to run (numeric literals, file-path/line-number substrings, memory       *)
(* addresses)                                                                   *)
Text(s) == [kind |-> "text", text |-> s]

Number(s) == [kind |-> "number", text |-> s]

PathLine(s) == [kind |-> "path", text |-> s]

Address(s) == [kind |-> "address", text |-> s]

VolatileKinds == {"number", "path", "address"}

(* str.lower() on the category keys and error types that occur *)
Lower(s) ==
  CASE s = "TypeError" -> "typeerror"
    [] s = "TYPEERROR" -> "typeerror"
    [] s = "RangeError" -> "rangeerror"
    [] s = "Frontend" -> "frontend"
    [] OTHER -> s

(* the message with its numeric literals, path/line substrings and addresses stripped *)
NormalizeMessage(message) ==
  LET kept == SelectSeq(message, LAMBDA piece : piece.kind \notin VolatileKinds)
  IN  [j \in 1..Len(kept) |-> kept[j].text]

fingerprint_RawMessage(report) ==
  <<Lower(report.category), Lower(report.error_type), report.error_message>>

(* the hash of the normalized tuple; the hash is taken to be collision-free *)
fingerprint(report) ==
  <<Lower(report.category), Lower(report.error_type), NormalizeMessage(report.error_message)>>

(* the store a handler reads and writes, as one record *)
Store == [groups |-> groups, occurrences |-> occurrences, clock |-> storeClock]

NewGroup(report, now) ==
  [id |-> now, fingerprint |-> fingerprint(report), category |-> report.category,
   errorType |-> report.error_type, representativeMessage |-> report.error_message,
   occurrenceCount |-> 1, firstSeen |-> now, lastSeen |-> now,
   resolved |-> FALSE, resolvedAt |-> NoNum]

NewOccurrence(report, now) ==
  [fingerprint |-> fingerprint(report), occurredAt |-> now, report |-> report]

recordError_AlwaysCreates(s, report) ==
  LET now == s.clock + 1
  IN  [groups |-> s.groups \cup {NewGroup(report, now)},
       occurrences |-> Append(s.occurrences, NewOccurrence(report, now)),
       clock |-> now]

recordError_KeepsResolved(s, report) ==
  LET now == s.clock + 1
      existing == {g \in s.groups : g.fingerprint = fingerprint(report)}
  IN  [groups |-> IF existing = {}
                  THEN s.groups \cup {NewGroup(report, now)}
                  ELSE (s.groups \ existing) \cup
                       {[g EXCEPT !.occurrenceCount = @ + 1, !.lastSeen = now] : g \in existing},
       occurrences |-> Append(s.occurrences, NewOccurrence(report, now)),
       clock |-> now]

recordError_SkipsOccurrence(s, report) ==
  LET now == s.clock + 1
      existing == {g \in s.groups : g.fingerprint = fingerprint(report)}
  IN  [groups |-> IF existing = {}
                  THEN s.groups \cup {NewGroup(report, now)}
                  ELSE (s.groups \ existing) \cup
                       {[g EXCEPT !.occurrenceCount = @ + 1, !.lastSeen = now,
                                  !.resolved = FALSE, !.resolvedAt = NoNum] : g \in existing},
       occurrences |-> IF existing = {}
                       THEN Append(s.occurrences, NewOccurrence(report, now))
                       ELSE s.occurrences,
       clock |-> now]

recordError_CountsTwice(s, report) ==
  LET now == s.clock + 1
      existing == {g \in s.groups : g.fingerprint = fingerprint(report)}
  IN  [groups |-> IF existing = {}
                  THEN s.groups \cup {NewGroup(report, now)}
                  ELSE (s.groups \ existing) \cup
                       {[g EXCEPT !.occurrenceCount = @ + 2, !.lastSeen = now,
                                  !.resolved = FALSE, !.resolvedAt = NoNum] : g \in existing},
       occurrences |-> Append(s.occurrences, NewOccurrence(report, now)),
       clock |-> now]

(* recordError(report): the atomic increment-or-create, then the new occurrence row *)
recordError(s, report) ==
  LET now == s.clock + 1
      existing == {g \in s.groups : g.fingerprint = fingerprint(report)}
  IN  [groups |-> IF existing = {}
                  THEN s.groups \cup {NewGroup(report, now)}
                  ELSE (s.groups \ existing) \cup
                       {[g EXCEPT !.occurrenceCount = @ + 1, !.lastSeen = now,
                                  !.resolved = FALSE, !.resolvedAt = NoNum] : g \in existing},
       occurrences |-> Append(s.occurrences, NewOccurrence(report, now)),
       clock |-> now]

(* resolve(fingerprint): active -> resolved *)
resolve(s, fp) ==
  [s EXCEPT !.groups = {IF g.fingerprint = fp /\ ~g.resolved
                        THEN [g EXCEPT !.resolved = TRUE, !.resolvedAt = s.clock]
                        ELSE g : g \in s.groups}]

delete_OnlyHides(s, fp) ==
  [s EXCEPT !.groups = {IF g.fingerprint = fp
                        THEN [g EXCEPT !.resolved = TRUE, !.resolvedAt = s.clock]
                        ELSE g : g \in s.groups},
            !.occurrences = SelectSeq(s.occurrences, LAMBDA o : o.fingerprint # fp)]

delete_KeepsOccurrences(s, fp) ==
  [s EXCEPT !.groups = {g \in s.groups : g.fingerprint # fp}]

(* delete(fingerprint): removes the group and all its occurrences *)
delete(s, fp) ==
  [s EXCEPT !.groups = {g \in s.groups : g.fingerprint # fp},
            !.occurrences = SelectSeq(s.occurrences, LAMBDA o : o.fingerprint # fp)]

clearResolved_ClearsAll(s) ==
  [s EXCEPT !.groups = {}, !.occurrences = <<>>]

(* clearResolved(): bulk-deletes the groups currently marked resolved *)
clearResolved(s) ==
  LET gone == {g.fingerprint : g \in {x \in s.groups : x.resolved}}
  IN  [s EXCEPT !.groups = {g \in s.groups : ~g.resolved},
                !.occurrences = SelectSeq(s.occurrences, LAMBDA o : o.fingerprint \notin gone)]

(* ------------------------- ingestion endpoint -------------------------- *)
(* a request body after request.get_json(): a JSON object keyed errors, or a *)
(* bare JSON array of reports                                                *)
Wrapped(errors) == [shape |-> "object", errors |-> errors]

Bare(errors) == [shape |-> "array", errors |-> errors]

NoResponse == [status |-> 0, logged |-> 0]

RECURSIVE recordAll(_, _)
(* for error in errors: db.log_error(...) *)
recordAll(s, errors) ==
  IF errors = <<>> THEN s ELSE recordAll(recordError(s, Head(errors)), Tail(errors))

(* POST /api/log-frontend-error: data.get('errors', []) raises AttributeError *)
(* on a list, and the request ends with status 500                            *)
log_frontend_error(s, body) ==
  IF body.shape = "array"
  THEN [store |-> s, response |-> [status |-> 500, logged |-> 0]]
  ELSE [store |-> recordAll(s, body.errors),
        response |-> [status |-> 200, logged |-> Len(body.errors)]]

(* ------------------------------ inputs --------------------------------- *)
NullRead(path, addr) ==
  <<Text("Cannot read properties of null"), PathLine(path), Address(addr)>>

NotAFunction(path, addr) ==
  <<Text("x is not a function"), PathLine(path), Address(addr)>>

ServerReport(category, type, message, page, at) ==
  [category |-> category, error_type |-> type, error_message |-> message,
   page_url |-> page, timestamp |-> at, stack |-> <<"frame", at>>]

ReportA == ServerReport("frontend", "TypeError", NullRead("app.js:10", "0x7f3a"), "/a", 1)

ReportB == ServerReport("frontend", "TypeError", NullRead("app.js:22", "0x91c0"), "/b", 2)

ReportUpper == ServerReport("frontend", "TYPEERROR", NullRead("app.js:10", "0x7f3a"), "/a", 1)

ReportRange == ServerReport("frontend", "RangeError", NullRead("app.js:10", "0x7f3a"), "/a", 1)

ReportOther == ServerReport("frontend", "TypeError", NotAFunction("app.js:10", "0x7f3a"), "/a", 1)

ReportApi == ServerReport("api", "TypeError", NullRead("app.js:10", "0x7f3a"), "/a", 1)

StoreReports == {ReportA, ReportB, ReportOther}

GroupingReports == {ReportA, ReportB, ReportUpper, ReportRange, ReportOther, ReportApi}

Fingerprints == {fingerprint(r) : r \in GroupingReports}

(* a recordError call in progress: its report and the store's clock when it started *)
Call(report, at) == [report |-> report, startedAt |-> at]

NoCall == [startedAt |-> NoNum]

Batches(reports) ==
  UNION {[1..n -> reports] : n \in 0..MaxBatch}


(* ========================== debug button (browser) ========================== *)
(* flask_error_tracker/static/debug-button.js: an IIFE that keeps an error log  *)
(* and a console log in memory and builds a floating button (the FAB) once the  *)
(* document is ready.  The handlers below are operators on the record d of the  *)
(* script's state; exc is the exception the running handler has thrown, and     *)
(* console the number of collector wrappers on the page's console methods.      *)

(* window.DEBUG_BUTTON_CONFIG as set by the page: the options that are given *)
DebugConfigs ==
  { [k \in {} |-> 0],
    [alwaysVisible |-> TRUE],
    [maxLogs |-> SmallMaxLogs],
    [maxLogs |-> SmallMaxLogs, alwaysVisible |-> TRUE],
    [maxLogs |-> 0] }

DefaultConfig == [maxLogs |-> DefaultMaxLogs, alwaysVisible |-> FALSE, showTestButton |-> TRUE]

(* Object.assign(defaults, overrides): the overrides win *)
ObjectAssign(defaults, overrides) == overrides @@ defaults

(* fabEl: null until buildUI creates the element; style.display and the text *)
(* of the count badge inside it                                              *)
NoFab == [built |-> FALSE, display |-> "", badge |-> 0]

DebugCur ==
  [loaded |-> debugButtonLoaded, cfg |-> cfg, errorLog |-> errorLog,
   consoleLog |-> consoleLog, errorCount |-> errorCount, fabEl |-> fabEl,
   uiReady |-> uiReady, initPending |-> initPending,
   installs |-> debugInstalls, con |-> debugCon, console |-> loads,
   fabOpen |-> fabOpen, modalShown |-> modalShown,
   clock |-> debugHist.clock, arrivedConsole |-> debugHist.arrivedConsole,
   arrivedErrors |-> debugHist.arrivedErrors, events |-> debugHist.events,
   logged |-> debugHist.logged, config |-> debugHist.config, runs |-> debugHist.runs,
   exc |-> NoVal]

(* JSON.stringify(a, null, 2): the indented form of the JSON text *)
Indented(json) == "indent2 " \o json

(* try { typeof a === "object" ? JSON.stringify(a, null, 2) : String(a) } catch { String(a) } *)
SerializeIndented(a) ==
  IF TypeofObject(a) /\ a.json # NoVal THEN Indented(a.json)
  ELSE a.text

RECURSIVE JoinIndented(_)
JoinIndented(args) ==
  IF Len(args) = 0 THEN ""
  ELSE IF Len(args) = 1 THEN SerializeIndented(args[1])
  ELSE SerializeIndented(args[1]) \o " " \o JoinIndented(Tail(args))

(* if (uiReady && fabEl) fabEl.style.display = "" *)
showFab(d) ==
  IF d.uiReady /\ d.fabEl.built THEN [d EXCEPT !.fabEl.display = ""] ELSE d

(* the badge element exists once buildUI has put it into the document *)
updateBadge(d) ==
  IF d.fabEl.built THEN [d EXCEPT !.fabEl.badge = d.errorCount] ELSE d

logError_CountsCalls(d, message, error) ==
  LET entry == [time |-> d.clock + 1, message |-> message,
                error |-> IF error # NoVal THEN error ELSE "Unknown error"]
      pushed == Append(d.errorLog, entry)
      kept == IF Len(pushed) > d.cfg.maxLogs THEN Shift(pushed) ELSE pushed
  IN  updateBadge(showFab([d EXCEPT !.errorLog = kept, !.errorCount = @ + 1,
                                    !.clock = @ + 1, !.logged = @ + 1,
                                    !.arrivedErrors = Append(@, entry)]))

logError_KeepsOldest(d, message, error) ==
  LET entry == [time |-> d.clock + 1, message |-> message,
                error |-> IF error # NoVal THEN error ELSE "Unknown error"]
      pushed == Append(d.errorLog, entry)
      kept == IF Len(pushed) > d.cfg.maxLogs THEN SubSeq(pushed, 1, Len(pushed) - 1) ELSE pushed
  IN  updateBadge(showFab([d EXCEPT !.errorLog = kept, !.errorCount = Len(kept),
                                    !.clock = @ + 1, !.logged = @ + 1,
                                    !.arrivedErrors = Append(@, entry)]))

logError_Silent(d, message, error) ==
  LET entry == [time |-> d.clock + 1, message |-> message,
                error |-> IF error # NoVal THEN error ELSE "Unknown error"]
      pushed == Append(d.errorLog, entry)
      kept == IF Len(pushed) > d.cfg.maxLogs THEN Shift(pushed) ELSE pushed
  IN  updateBadge([d EXCEPT !.errorLog = kept, !.errorCount = Len(kept),
                            !.clock = @ + 1, !.logged = @ + 1,
                            !.arrivedErrors = Append(@, entry)])

(* logError(message, error) *)
logError(d, message, error) ==
  LET entry == [time |-> d.clock + 1, message |-> message,
                error |-> IF error # NoVal THEN error ELSE "Unknown error"]
      pushed == Append(d.errorLog, entry)
      kept == IF Len(pushed) > d.cfg.maxLogs THEN Shift(pushed) ELSE pushed
  IN  updateBadge(showFab([d EXCEPT !.errorLog = kept, !.errorCount = Len(kept),
                                    !.clock = @ + 1, !.logged = @ + 1,
                                    !.arrivedErrors = Append(@, entry)]))

(* capture(type, args): the serialization of an argument that can be turned *)
(* into text neither way throws out of capture before anything is recorded  *)
capture(d, type, args) ==
  LET entry == [time |-> d.clock + 1, type |-> type, message |-> JoinIndented(args)]
      pushed == Append(d.consoleLog, entry)
      kept == IF Len(pushed) > d.cfg.maxLogs THEN Shift(pushed) ELSE pushed
      logged == [d EXCEPT !.consoleLog = kept, !.clock = @ + 1,
                          !.arrivedConsole = Append(@, entry)]
  IN  IF \E j \in 1..Len(args) : SerializeThrows(args[j])
      THEN [d EXCEPT !.exc = "TypeError"]
      ELSE IF type = "error"
      THEN logError(logged, "console.error: " \o entry.message, NoVal)
      ELSE logged

(* window.addEventListener("error", ...): ev.message || "Uncaught error", ev.error *)
errorListener(d, message, error) ==
  logError(d, IF message # "" THEN message ELSE "Uncaught error", error)

(* window.addEventListener("unhandledrejection", ...) *)
debugRejectionListener(d, reason) ==
  logError(d, "Unhandled promise rejection", "Error: " \o reason)

(* the listeners registered for one event run in turn: one per run of the  *)
(* script body that got past the guard                                     *)
RECURSIVE errorListeners(_, _, _, _)
errorListeners(d, n, message, error) ==
  IF n = 0 THEN d
  ELSE errorListeners(errorListener(d, message, error), n - 1, message, error)

RECURSIVE debugRejectionListeners(_, _, _)
debugRejectionListeners(d, n, reason) ==
  IF n = 0 THEN d
  ELSE debugRejectionListeners(debugRejectionListener(d, reason), n - 1, reason)

(* console[type] as the debug button wraps it: capture, then _con[type], once *)
(* per wrapper installed; an exception thrown by capture leaves the wrapper   *)
RECURSIVE debugConsoleWrapper(_, _, _, _)
debugConsoleWrapper(d, n, type, args) ==
  IF n = 0 THEN d
  ELSE LET logged == capture(d, type, args)
       IN  IF logged.exc # NoVal THEN logged
           ELSE debugConsoleWrapper(logged, n - 1, type, args)

(* buildUI(): creates the FAB, hidden in errors-only mode while no error is *)
(* counted, then marks the UI ready and shows the FAB if errors are counted *)
buildUI(d) ==
  LET created == [d EXCEPT !.fabEl = [built |-> TRUE,
                                      display |-> IF ~d.cfg.alwaysVisible /\ d.errorCount = 0
                                                  THEN "none" ELSE "",
                                      badge |-> 0]]
      ready == updateBadge([created EXCEPT !.uiReady = TRUE])
  IN  IF ready.errorCount > 0 THEN showFab(ready) ELSE ready

(* init(): injectStyles(); buildUI() *)
init(d) == buildUI([d EXCEPT !.initPending = FALSE])

clearAll_KeepsConsole(d) ==
  LET cleared == updateBadge([d EXCEPT !.errorLog = <<>>, !.errorCount = 0,
                                       !.arrivedConsole = <<>>,
                                       !.arrivedErrors = <<>>, !.events = 0, !.logged = 0])
  IN  IF ~cleared.uiReady THEN [cleared EXCEPT !.exc = "TypeError"]
      ELSE IF ~cleared.cfg.alwaysVisible /\ cleared.fabEl.built
      THEN [cleared EXCEPT !.fabEl.display = "none"]
      ELSE cleared

(* clearAll(): document.getElementById("dbg-log-content") is null until buildUI *)
(* has run, and the assignment to its textContent then throws a TypeError       *)
clearAll(d) ==
  LET cleared == updateBadge([d EXCEPT !.errorLog = <<>>, !.consoleLog = <<>>,
                                       !.errorCount = 0, !.arrivedConsole = <<>>,
                                       !.arrivedErrors = <<>>, !.events = 0, !.logged = 0])
  IN  IF ~cleared.uiReady THEN [cleared EXCEPT !.exc = "TypeError"]
      ELSE IF ~cleared.cfg.alwaysVisible /\ cleared.fabEl.built
      THEN [cleared EXCEPT !.fabEl.display = "none"]
      ELSE cleared

(* openModal(): writes the logs into #dbg-log-content and shows #dbg-overlay; *)
(* both elements are created by buildUI, and before it getElementById gives   *)
(* null, so the assignment to textContent throws a TypeError                  *)
openModal(d) ==
  IF ~d.uiReady THEN [d EXCEPT !.exc = "TypeError"]
  ELSE [d EXCEPT !.modalShown = TRUE]

(* closeModal(): document.getElementById("dbg-overlay").classList.remove("show") *)
closeModal(d) ==
  IF ~d.uiReady THEN [d EXCEPT !.exc = "TypeError"]
  ELSE [d EXCEPT !.modalShown = FALSE]

(* closeFab(): fabOpen = false; if (fabEl) fabEl.classList.remove("open") *)
closeFab(d) == [d EXCEPT !.fabOpen = FALSE]

(* DebugButton.openFab(): fabOpen = true; if (fabEl) fabEl.classList.add("open") *)
openFab(d) == [d EXCEPT !.fabOpen = TRUE]

(* the keydown listener: on Escape it reads the overlay's classList, which   *)
(* throws a TypeError while the overlay does not exist; the browser reports  *)
(* an exception that leaves a listener as an error event at window, which    *)
(* the script's own error listener logs                                      *)
keydownListener(d, key) ==
  IF key # "Escape" THEN d
  ELSE IF ~d.uiReady
  THEN [errorListeners([d EXCEPT !.events = @ + 1], d.installs,
                       "Uncaught TypeError: Cannot read properties of null",
                       "TypeError: Cannot read properties of null")
          EXCEPT !.exc = "TypeError"]
  ELSE IF d.modalShown THEN closeModal(d)
  ELSE closeFab(d)

(* testError(): try { throw new Error(...) } catch (e) { logError(...) } *)
testError(d) == logError(d, "Test error triggered", "Error: Test error from debug button")

loadDebugButton_NoGuard(d, config, loading) ==
  LET fresh == [d EXCEPT !.loaded = TRUE, !.config = config,
                         !.cfg = ObjectAssign(DefaultConfig, config),
                         !.errorLog = <<>>, !.consoleLog = <<>>, !.errorCount = 0,
                         !.fabEl = NoFab, !.uiReady = FALSE, !.fabOpen = FALSE,
                         !.con = d.console, !.installs = @ + 1, !.runs = @ + 1]
  IN  IF loading THEN [fresh EXCEPT !.initPending = TRUE] ELSE init(fresh)

(* the script body: the guard, the configuration, the wrappers and listeners, *)
(* and init now or on DOMContentLoaded                                        *)
loadDebugButton(d, config, loading) ==
  IF d.loaded THEN [d EXCEPT !.runs = @ + 1]
  ELSE LET fresh == [d EXCEPT !.loaded = TRUE, !.config = config,
                              !.cfg = ObjectAssign(DefaultConfig, config),
                              !.errorLog = <<>>, !.consoleLog = <<>>, !.errorCount = 0,
                              !.fabEl = NoFab, !.uiReady = FALSE, !.fabOpen = FALSE,
                              !.con = d.console, !.installs = @ + 1, !.runs = @ + 1]
       IN  IF loading THEN [fresh EXCEPT !.initPending = TRUE] ELSE init(fresh)

(* ================== both scripts in one page: the console ================== *)
(* Each script saves the console methods it finds and installs wrappers that   *)
(* call the saved ones (error-collector.js lines 19-38, debug-button.js lines  *)
(* 48-64).  With the debug button's _con holding d.con collector wrappers, a   *)
(* call passes the collector wrappers installed after the debug button, then   *)
(* the debug button's wrapper, then the collector wrappers installed before    *)
(* it, then the browser's console.                                             *)

(* the collector wrappers of the instances top down to floor + 1 *)
RECURSIVE collectorLayers(_, _, _, _, _, _)
collectorLayers(m, top, floor, type, args, beaconOk) ==
  IF top <= floor THEN m
  ELSE LET logged == captureConsoleLog(m, top, type, args, beaconOk)
       IN IF logged.exc # NoVal THEN logged
          ELSE collectorLayers(logged, top - 1, floor, type, args, beaconOk)

pageConsole_DebugSkipsSaved(m, d, type, args, beaconOk) ==
  LET outer == collectorLayers(m, m.loads, d.con, type, args, beaconOk)
      mid == debugConsoleWrapper(d, d.installs, type, args)
  IN  IF outer.exc # NoVal THEN [m |-> outer, d |-> d]
      ELSE [m |-> outer, d |-> mid]

(* console[type](...args) as the page finds it once both scripts have run *)
pageConsole(m, d, type, args, beaconOk) ==
  LET outer == collectorLayers(m, m.loads, d.con, type, args, beaconOk)
      mid == debugConsoleWrapper(d, d.installs, type, args)
  IN  IF outer.exc # NoVal THEN [m |-> outer, d |-> d]
      ELSE IF mid.exc # NoVal THEN [m |-> [outer EXCEPT !.exc = mid.exc], d |-> mid]
      ELSE [m |-> consoleWrapper(outer, d.con, type, args, beaconOk), d |-> mid]

(* ============================ initial state ============================ *)
(* the page-teardown signals the collector listens to *)
TeardownOps == {"beforeunload", "pagehide"}

NoPrev == [op |-> "other", sends |-> 0]

(* the state after the page has run the script once *)
Init ==
  /\ loads = 1
  /\ consoleLogs = [i \in Inst |-> <<>>]
  /\ pendingErrors = [i \in Inst |-> <<>>]
  /\ captured = [i \in Inst |-> <<>>]
  /\ sent = <<>>
  /\ nextId = 0
  /\ calls = <<>>
  /\ nativeConsole = 1
  /\ hasBeacon \in BOOLEAN
  /\ windowOnerror = assignOnerror(HostOnerror, 1)
  /\ showToast = NoToast
  /\ domReady = FALSE
  /\ hostCalls = [onerror |-> 0, toast |-> 0]
  /\ last = [op |-> "load", inst |-> 1, before |-> [i \in Inst |-> 0], sends |-> 0,
             queued |-> 0, host |-> 0, threw |-> NoVal, uncaught |-> 0, ret |-> NoVal,
             prev |-> NoPrev, input |-> <<>>, native |-> <<>>, logged |-> 0]
  /\ groups = {}
  /\ occurrences = <<>>
  /\ storeClock = 0
  /\ recordCalls = [w \in Workers |-> NoCall]
  /\ completed = [f \in Fingerprints |-> 0]
  /\ response = NoResponse
  /\ storeLast = [op |-> "none", fp |-> <<>>, input |-> <<>>,
                  before |-> [groups |-> {}, occurrences |-> <<>>]]
  /\ debugButtonLoaded = FALSE
  /\ cfg = DefaultConfig
  /\ errorLog = <<>>
  /\ consoleLog = <<>>
  /\ errorCount = 0
  /\ fabEl = NoFab
  /\ uiReady = FALSE
  /\ initPending = FALSE
  /\ debugInstalls = 0
  /\ debugCon = 0
  /\ fabOpen = FALSE
  /\ modalShown = FALSE
  /\ debugHist = [op |-> "none", exc |-> NoVal, clock |-> 0, arrivedConsole |-> <<>>,
                  arrivedErrors |-> <<>>, events |-> 0, logged |-> 0,
                  config |-> [k \in {} |-> 0], runs |-> 0]

(* writes the debug button's state back and records which handler ran *)
DebugCommit(d, op) ==
  /\ debugButtonLoaded' = d.loaded
  /\ cfg' = d.cfg
  /\ errorLog' = d.errorLog
  /\ consoleLog' = d.consoleLog
  /\ errorCount' = d.errorCount
  /\ fabEl' = d.fabEl
  /\ uiReady' = d.uiReady
  /\ initPending' = d.initPending
  /\ debugInstalls' = d.installs
  /\ debugCon' = d.con
  /\ fabOpen' = d.fabOpen
  /\ modalShown' = d.modalShown
  /\ debugHist' = [op |-> op, exc |-> d.exc, clock |-> d.clock,
                   arrivedConsole |-> d.arrivedConsole, arrivedErrors |-> d.arrivedErrors,
                   events |-> d.events, logged |-> d.logged, config |-> d.config,
                   runs |-> d.runs]

(* writes the handler's result back and records which handler ran and, for a   *)
(* teardown listener, whether the handler before it was one too                *)
CommitCollector(m, op, i) ==
  /\ loads' = m.loads
  /\ consoleLogs' = m.consoleLogs
  /\ pendingErrors' = m.pendingErrors
  /\ captured' = m.captured
  /\ sent' = m.sent
  /\ nextId' = m.nextId
  /\ calls' = m.calls
  /\ nativeConsole' = m.nativeConsole
  /\ windowOnerror' = m.windowOnerror
  /\ showToast' = m.showToast
  /\ domReady' = m.domReady
  /\ hostCalls' = m.hostCalls
  /\ last' = [op |-> op, inst |-> i,
              before |-> [k \in Inst |-> Len(pendingErrors[k])],
              sends |-> Len(m.sent) - Len(sent), queued |-> m.nextId - nextId,
              host |-> (m.hostCalls.onerror + m.hostCalls.toast)
                         - (hostCalls.onerror + hostCalls.toast),
              threw |-> m.exc, uncaught |-> m.uncaught, ret |-> m.ret,
              prev |-> IF op \in TeardownOps /\ last.op \in TeardownOps
                       THEN [op |-> last.op, sends |-> last.sends]
                       ELSE NoPrev,
              input |-> m.input, native |-> m.forwarded,
              logged |-> Len(m.captured[i]) - Len(captured[i])]
  /\ UNCHANGED hasBeacon
  /\ UNCHANGED storeVars

Commit(m, op, i) == CommitCollector(m, op, i) /\ UNCHANGED debugVars

(* the script runs once more in the same page *)
LoadScript ==
  /\ loads < MaxLoads
  /\ \E beaconOk \in BOOLEAN : Commit(loadScript(Cur, beaconOk), "load", loads + 1)

(* console.log / console.warn / console.error / console.info *)
ConsoleCall(type, args) ==
  /\ type = "error" => nextId + loads <= MaxReports
  /\ \E beaconOk \in BOOLEAN :
       Commit(consoleWrapper([Cur EXCEPT !.input = args], loads, type, args, beaconOk),
              "console." \o type, loads)

(* the browser reports an uncaught exception *)
WindowError(message, errName) ==
  /\ nextId < MaxReports
  /\ \E beaconOk \in BOOLEAN :
       Commit(dispatchOnerror(Cur, message, errName, beaconOk), "window.onerror", loads)

(* the browser reports an unhandled promise rejection *)
UnhandledRejection(reason) ==
  /\ nextId + loads <= MaxReports
  /\ \E beaconOk \in BOOLEAN :
       Commit(rejectionListeners(Cur, 1, loads, reason, beaconOk), "unhandledrejection", loads)

ManualReport(type, message, extra) ==
  /\ \E beaconOk \in BOOLEAN :
       Commit(manualReport([Cur EXCEPT !.input = <<type, message, extra>>],
                           loads, type, message, extra, beaconOk),
              "ErrorCollector.report", loads)

(* setInterval(flushErrors, BATCH_INTERVAL) of instance i *)
TimerFlush(i) ==
  /\ i <= loads
  /\ \E beaconOk \in BOOLEAN : Commit(timerTask(Cur, i, beaconOk), "timer", i)

BeforeUnload ==
  \E beaconOk \in BOOLEAN : Commit(flushListeners(Cur, 1, loads, beaconOk), "beforeunload", loads)

PageHide ==
  \E beaconOk \in BOOLEAN : Commit(flushListeners(Cur, 1, loads, beaconOk), "pagehide", loads)

(* ErrorCollector.flush() *)
ExplicitFlush ==
  \E beaconOk \in BOOLEAN : Commit(flushErrors(Cur, loads, beaconOk), "ErrorCollector.flush", loads)

(* the application calls window.fetch(input) *)
FetchCall(input) ==
  /\ Cardinality({c \in 1..Len(calls) : calls[c].owner = "app"}) < MaxFetch
  /\ Commit([Cur EXCEPT !.calls = Append(@, AppCall(input, loads))], "fetch", loads)

(* the network answers call c *)
NetworkSettle(c, st, val) ==
  /\ c \in 1..Len(calls)
  /\ calls[c].st = "inflight"
  /\ nextId + calls[c].depth <= MaxReports
  /\ \E beaconOk \in BOOLEAN :
       Commit(networkSettle(Cur, c, st, val, beaconOk),
              IF calls[c].owner = "app" THEN "fetch.settle" ELSE "send.settle", loads)

(* the detached body read of layer k completes *)
BodyRead(c, k) ==
  /\ c \in 1..Len(calls)
  /\ calls[c].reads[k] = "reading"
  /\ nextId < MaxReports
  /\ \E beaconOk \in BOOLEAN : Commit(bodyCallback(Cur, c, k, beaconOk), "fetch.body", k)

(* the host page defines window.showToast *)
HostDefinesToast ==
  /\ ~showToast.defined
  /\ Commit(hostDefinesToast(Cur), "host.defineToast", loads)

(* the document has been parsed: the DOMContentLoaded listeners run, once *)
DomContentLoaded ==
  /\ ~domReady
  /\ CommitCollector(domContentLoaded(Cur, 1, loads), "DOMContentLoaded", loads)
  /\ IF initPending
     THEN DebugCommit(init(DebugCur), "DOMContentLoaded")
     ELSE UNCHANGED debugVars

(* the application calls window.showToast(type, title, message) *)
ToastCall(type, title, message) ==
  /\ showToast.defined
  /\ hostCalls.toast < MaxToasts
  /\ nextId + Len(showToast.wrappers) <= MaxReports
  /\ \E beaconOk \in BOOLEAN :
       Commit(toastCall([Cur EXCEPT !.input = <<type, title, message>>],
                        Len(showToast.wrappers), type, title, message, beaconOk),
              "showToast", loads)

(* ------------------------ inputs of the exploration --------------------- *)
CallIds == 1..(MaxFetch + MaxReports)

FetchInputs == {StringInput("/api/items"), RequestInput("/api/items"), UrlObjectInput("/api/items")}

Outcomes ==
  { <<"resolved", Response(200, TRUE, TRUE, 10)>>,
    <<"resolved", Response(302, TRUE, TRUE, 0)>>,
    <<"resolved", Response(404, TRUE, TRUE, 10)>>,
    <<"resolved", Response(500, TRUE, TRUE, 501)>>,
    <<"resolved", Response(500, FALSE, FALSE, 10)>>,
    <<"resolved", Response(503, TRUE, FALSE, 10)>>,
    <<"rejected", FetchErr("TypeError", "Failed to fetch")>>,
    <<"rejected", FetchErr("AbortError", "")>> }

SendOutcomes ==
  { <<"resolved", Response(200, TRUE, TRUE, 0)>>,
    <<"rejected", FetchErr("TypeError", "Failed to fetch")>> }

IsApp(c) == c \in 1..Len(calls) /\ calls[c].owner = "app"

IsSend(c) == c \in 1..Len(calls) /\ calls[c].owner = "flush"

ConsoleTypes == {"log", "warn", "error", "info"}

(* argument lists whose every argument can be turned into text *)
ArgSamples ==
  { <<>>,
    <<StrArg("boom")>>,
    <<StrArg("user"), ObjArg("{\"id\":7}")>>,
    <<CircularArg>> }

(* argument lists with an object JSON.stringify throws on *)
CyclicArgSamples ==
  { <<CircularArg>>,
    <<StrArg("state"), CircularArg>>,
    <<StrArg("state"), BareCircularArg>> }

(* ---------------- Spec: capture and dispatch, one load ------------------ *)
Next ==
  \/ \E type \in {"warn", "error"} :
       Len(captured[1]) + nextId < MaxReports /\ ConsoleCall(type, <<StrArg("boom")>>)
  \/ \E errName \in {NoVal, "TypeError"} : WindowError("x is not defined", errName)
  \/ \E reason \in {NoVal, "Error: boom"} : UnhandledRejection(reason)
  \/ nextId < MaxReports /\ ManualReport("CustomError", "manual message", PlainExtra)
  \/ \E i \in Inst : TimerFlush(i)
  \/ BeforeUnload
  \/ PageHide
  \/ ExplicitFlush
  \/ \E c \in CallIds, o \in SendOutcomes : IsSend(c) /\ NetworkSettle(c, o[1], o[2])

Spec == Init /\ [][Next]_vars

(* ------------- SpecFetch: the fetch wrapper and the dispatcher ---------- *)
NextFetch ==
  \/ \E input \in FetchInputs : FetchCall(input)
  \/ \E c \in CallIds, o \in Outcomes : IsApp(c) /\ NetworkSettle(c, o[1], o[2])
  \/ \E c \in CallIds, k \in Inst : BodyRead(c, k)
  \/ TimerFlush(1)
  \/ \E c \in CallIds, o \in SendOutcomes : IsSend(c) /\ NetworkSettle(c, o[1], o[2])

SpecFetch == Init /\ [][NextFetch]_vars

(* ------------- SpecReload: the script runs more than once --------------- *)
NextReload ==
  \/ LoadScript
  \/ Len(captured[1]) < MaxConsoleCalls + loads - 1 /\ ConsoleCall("error", <<StrArg("boom")>>)
  \/ FetchCall(StringInput("/api/items"))
  \/ \E c \in CallIds :
       IsApp(c) /\ NetworkSettle(c, "rejected", FetchErr("TypeError", "Failed to fetch"))
  \/ \E i \in Inst : TimerFlush(i)

SpecReload == Init /\ [][NextReload]_vars

(* ------------- SpecRing: the console ring buffer fills up --------------- *)
RingErrors == Cardinality({j \in 1..Len(captured[1]) : captured[1][j].type = "error"})

NextRing ==
  \/ Len(captured[1]) < MaxRingCalls /\ ConsoleCall("log", <<StrArg("tick")>>)
  \/ /\ Len(captured[1]) < MaxRingCalls
     /\ RingErrors < MaxRingErrors
     /\ ConsoleCall("error", <<StrArg("boom")>>)
  \/ TimerFlush(1)

SpecRing == Init /\ [][NextRing]_vars

(* ------------- SpecConsole: the four console wrappers ------------------- *)
NextConsole ==
  \/ \E type \in ConsoleTypes, args \in ArgSamples :
       Len(captured[1]) < MaxCaptures /\ ConsoleCall(type, args)
  \/ TimerFlush(1)

SpecConsole == Init /\ [][NextConsole]_vars

(* ------------- SpecSerialize: arguments JSON cannot serialize ----------- *)
NextSerialize ==
  \/ \E type \in ConsoleTypes, args \in CyclicArgSamples :
       Len(captured[1]) < MaxCaptures /\ ConsoleCall(type, args)
  \/ TimerFlush(1)

SpecSerialize == Init /\ [][NextSerialize]_vars

(* ------------- SpecLive: the dispatcher while the page lives ------------ *)
(* setInterval fires every BATCH_INTERVAL for as long as the page lives, and  *)
(* a request the browser has started settles (it resolves, or rejects on a    *)
(* network failure or timeout): both steps are taken eventually               *)
SendSettles == \E c \in CallIds, o \in SendOutcomes : IsSend(c) /\ NetworkSettle(c, o[1], o[2])

NextLive ==
  \/ nextId < MaxReports /\ ManualReport("CustomError", "manual message", PlainExtra)
  \/ \E errName \in {NoVal, "TypeError"} : WindowError("x is not defined", errName)
  \/ TimerFlush(1)
  \/ BeforeUnload
  \/ ExplicitFlush
  \/ SendSettles

SpecLive == Init /\ [][NextLive]_vars /\ WF_vars(TimerFlush(1)) /\ WF_vars(SendSettles)

(* ------------- SpecToast: the notification hook -------------------------- *)
ToastLevels == {"error", "warning", "info", "success"}

NextToast ==
  \/ HostDefinesToast
  \/ DomContentLoaded
  \/ \E type \in ToastLevels : ToastCall(type, "Save", "Could not save")
  \/ TimerFlush(1)

SpecToast == Init /\ [][NextToast]_vars

(* ------------- SpecManual: ErrorCollector.report ------------------------ *)
NextManual ==
  \/ \E type \in {"CustomError", "JavaScriptError"}, extra \in {PlainExtra, CircularExtra} :
       nextId < MaxReports /\ ManualReport(type, "manual message", extra)
  \/ TimerFlush(1)
  \/ ExplicitFlush
  \/ SendSettles

SpecManual == Init /\ [][NextManual]_vars /\ WF_vars(TimerFlush(1))

(* ------------- SpecBurst: many reports between two flushes -------------- *)
NextBurst ==
  \/ nextId < MaxBurst /\ ManualReport("CustomError", "manual message", PlainExtra)
  \/ Len(sent) < 1 /\ TimerFlush(1)

SpecBurst == Init /\ [][NextBurst]_vars

(* ------------- SpecQueue: every source of reports, few reports ---------- *)
NextQueue ==
  \/ nextId < MaxQueued /\ ConsoleCall("error", <<StrArg("boom")>>)
  \/ nextId < MaxQueued /\ ManualReport("CustomError", "manual message", PlainExtra)
  \/ \E errName \in {NoVal, "TypeError"} :
       nextId < MaxQueued /\ WindowError("x is not defined", errName)
  \/ /\ nextId < MaxQueued
     /\ \A c \in 1..Len(calls) : calls[c].st # "inflight" /\ calls[c].reads[1] # "reading"
     /\ FetchCall(StringInput("/api/items"))
  \/ \E c \in CallIds, o \in {<<"resolved", Response(404, TRUE, TRUE, 10)>>,
                               <<"rejected", FetchErr("TypeError", "Failed to fetch")>>} :
       nextId < MaxQueued /\ IsApp(c) /\ NetworkSettle(c, o[1], o[2])
  \/ \E c \in CallIds : nextId < MaxQueued /\ BodyRead(c, 1)
  \/ HostDefinesToast
  \/ DomContentLoaded
  \/ nextId < MaxQueued /\ ToastCall("error", "Save", "Could not save")
  \/ TimerFlush(1)
  \/ ExplicitFlush

SpecQueue == Init /\ [][NextQueue]_vars

(* ------------- SpecFetchMixed: fetch answers while a report is pending -- *)
NextFetchMixed ==
  \/ Len(captured[1]) < MaxConsoleCalls /\ ConsoleCall("error", <<StrArg("boom")>>)
  \/ \E input \in {StringInput("/api/items"), RequestInput("/api/items")} : FetchCall(input)
  \/ \E c \in CallIds, o \in Outcomes : IsApp(c) /\ NetworkSettle(c, o[1], o[2])
  \/ \E c \in CallIds : BodyRead(c, 1)
  \/ TimerFlush(1)

SpecFetchMixed == Init /\ [][NextFetchMixed]_vars

(* ============================ debug button actions ========================= *)
Outside == <<hasBeacon, loads, consoleLogs, pendingErrors, captured, sent, nextId, calls,
             nativeConsole, windowOnerror, showToast, domReady, hostCalls, last, storeVars>>

(* the page runs debug-button.js: while the document is still loading, or later *)
LoadDebugButton(config, loading) ==
  /\ ~debugButtonLoaded
  /\ loading => ~domReady
  /\ DebugCommit(loadDebugButton(DebugCur, config, loading), "load")
  /\ UNCHANGED Outside

(* the page runs debug-button.js once more *)
LoadDebugButtonAgain(config, loading) ==
  /\ debugButtonLoaded
  /\ debugHist.runs < MaxDebugLoads
  /\ loading => ~domReady
  /\ DebugCommit(loadDebugButton(DebugCur, config, loading), "load again")
  /\ UNCHANGED Outside

HasRoom(n) ==
  /\ debugButtonLoaded
  /\ debugHist.clock + n <= MaxDebugEntries
  /\ debugHist.events < MaxDebugEntries

(* console.log / console.warn / console.error / console.info *)
DebugConsoleCall(type, args) ==
  /\ HasRoom(2)
  /\ DebugCommit(debugConsoleWrapper(
                   [DebugCur EXCEPT !.events = IF type = "error" THEN @ + 1 ELSE @],
                   debugInstalls, type, args),
                 "console." \o type)
  /\ UNCHANGED Outside

(* the browser dispatches an error event at window *)
DebugErrorEvent(message, error) ==
  /\ HasRoom(1)
  /\ DebugCommit(errorListeners([DebugCur EXCEPT !.events = @ + 1], debugInstalls,
                                message, error),
                 "error")
  /\ UNCHANGED Outside

(* the browser dispatches an unhandledrejection event *)
DebugRejection(reason) ==
  /\ HasRoom(1)
  /\ DebugCommit(debugRejectionListeners([DebugCur EXCEPT !.events = @ + 1],
                                         debugInstalls, reason),
                 "unhandledrejection")
  /\ UNCHANGED Outside

(* the page calls window.DebugButton.logError(message, error) *)
DebugLogError(message, error) ==
  /\ HasRoom(1)
  /\ DebugCommit(logError(DebugCur, message, error), "DebugButton.logError")
  /\ UNCHANGED Outside

(* a click on the Test Error action of the visible FAB *)
TestErrorClick ==
  /\ HasRoom(1)
  /\ uiReady /\ fabEl.built /\ fabEl.display = "" /\ cfg.showTestButton
  /\ DebugCommit(testError(DebugCur), "testError")
  /\ UNCHANGED Outside

(* window.DebugButton.clear(), or a click on Clear in the modal *)
DebugClear ==
  /\ debugButtonLoaded
  /\ DebugCommit(clearAll(DebugCur), "clear")
  /\ UNCHANGED Outside

(* ------------- SpecDebug: the debug button and its FAB ------------------ *)
NextDebug ==
  \/ \E config \in DebugConfigs, loading \in BOOLEAN : LoadDebugButton(config, loading)
  \/ DomContentLoaded
  \/ \E type \in {"log", "error"} : DebugConsoleCall(type, <<StrArg("boom")>>)
  \/ DebugErrorEvent("x is not defined", "ReferenceError: x is not defined")
  \/ DebugRejection("timeout")
  \/ DebugLogError("checkout failed", NoVal)
  \/ TestErrorClick
  \/ DebugClear

SpecDebug == Init /\ [][NextDebug]_vars

(* window.DebugButton.show() *)
DebugShow ==
  /\ debugButtonLoaded
  /\ DebugCommit(openModal(DebugCur), "show")
  /\ UNCHANGED Outside

(* window.DebugButton.hide() *)
DebugHide ==
  /\ debugButtonLoaded
  /\ DebugCommit(closeModal(DebugCur), "hide")
  /\ UNCHANGED Outside

(* window.DebugButton.openFab() *)
DebugOpenFab ==
  /\ debugButtonLoaded
  /\ DebugCommit(openFab(DebugCur), "openFab")
  /\ UNCHANGED Outside

(* the user presses a key *)
KeyDown(key) ==
  /\ HasRoom(1)
  /\ DebugCommit(keydownListener(DebugCur, key), "keydown")
  /\ UNCHANGED Outside

(* the page ran debug-button.js before error-collector.js: the debug button   *)
(* found the browser's console, and the collector's originalConsole.info call *)
(* at the end of its load (line 139) went through the debug button's wrapper  *)
LoadDebugButtonFirst(config, loading) ==
  /\ ~debugButtonLoaded
  /\ last.op = "load" /\ loads = 1
  /\ DebugCommit(debugConsoleWrapper(
                   loadDebugButton([DebugCur EXCEPT !.console = 0], config, loading),
                   1, "info", Banner),
                 "load")
  /\ UNCHANGED Outside

(* console.log / console.error called on a page that has run both scripts *)
PageConsoleCall(type, args) ==
  /\ HasRoom(2)
  /\ type = "error" => nextId + loads <= MaxReports
  /\ \E beaconOk \in BOOLEAN :
       LET r == pageConsole([Cur EXCEPT !.input = args],
                            [DebugCur EXCEPT !.events = IF type = "error" THEN @ + 1 ELSE @],
                            type, args, beaconOk)
       IN  /\ CommitCollector(r.m, "console." \o type, loads)
           /\ DebugCommit(r.d, "console." \o type)

(* ------------- SpecBoth: the collector and the debug button together ---- *)
NextBoth ==
  \/ \E config \in {[k \in {} |-> 0], [maxLogs |-> SmallMaxLogs]}, loading \in BOOLEAN :
       LoadDebugButton(config, loading)
  \/ \E config \in {[k \in {} |-> 0], [maxLogs |-> SmallMaxLogs]}, loading \in BOOLEAN :
       LoadDebugButtonFirst(config, loading)
  \/ DomContentLoaded
  \/ \E type \in {"log", "error"},
        args \in {<<StrArg("boom")>>, <<StrArg("user"), ObjArg("{\"id\":7}")>>} :
       PageConsoleCall(type, args)
  \/ TimerFlush(1)

SpecBoth == Init /\ [][NextBoth]_vars

(* ------------- SpecDebugApi: the public operations and the key handler -- *)
NextDebugApi ==
  \/ \E config \in {[k \in {} |-> 0], [alwaysVisible |-> TRUE]}, loading \in BOOLEAN :
       LoadDebugButton(config, loading)
  \/ DomContentLoaded
  \/ DebugShow
  \/ DebugHide
  \/ DebugOpenFab
  \/ DebugClear
  \/ \E key \in {"Escape", "a"} : KeyDown(key)
  \/ DebugConsoleCall("error", <<StrArg("boom")>>)

SpecDebugApi == Init /\ [][NextDebugApi]_vars

(* ------------- SpecDebugReload: the debug button script runs twice ------ *)
NextDebugReload ==
  \/ \E config \in {[k \in {} |-> 0], [maxLogs |-> SmallMaxLogs]}, loading \in BOOLEAN :
       LoadDebugButton(config, loading)
  \/ \E config \in {[k \in {} |-> 0], [alwaysVisible |-> TRUE]}, loading \in BOOLEAN :
       LoadDebugButtonAgain(config, loading)
  \/ DomContentLoaded
  \/ \E type \in {"log", "error"} : DebugConsoleCall(type, <<StrArg("boom")>>)
  \/ DebugErrorEvent("x is not defined", "ReferenceError: x is not defined")
  \/ DebugRejection("timeout")

SpecDebugReload == Init /\ [][NextDebugReload]_vars

(* ------------- SpecDebugLogs: the two logs filling up ------------------- *)
DebugArgSamples == {<<StrArg("boom")>>, <<StrArg("state"), BareCircularArg>>}

NextDebugLogs ==
  \/ \E config \in {[k \in {} |-> 0], [maxLogs |-> SmallMaxLogs], [maxLogs |-> 0]} :
       LoadDebugButton(config, FALSE)
  \/ \E type \in ConsoleTypes, args \in DebugArgSamples : DebugConsoleCall(type, args)
  \/ DebugErrorEvent("", NoVal)
  \/ DebugLogError("checkout failed", NoVal)
  \/ DebugClear

SpecDebugLogs == Init /\ [][NextDebugLogs]_vars

(* ======================= store and endpoint actions ======================= *)
Count(f, done) == Cardinality({j \in 1..Len(done) : done[j] = f})

(* writes the store back; done lists the fingerprints of the recordError *)
(* calls this step completed                                              *)
StoreCommit(s, op, fp, input, done) ==
  /\ groups' = s.groups
  /\ occurrences' = s.occurrences
  /\ storeClock' = s.clock
  /\ completed' = [f \in Fingerprints |->
                     IF \A g \in s.groups : g.fingerprint # f
                     THEN 0
                     ELSE completed[f] + Count(f, done)]
  /\ storeLast' = [op |-> op, fp |-> fp, input |-> input,
                   before |-> [groups |-> groups, occurrences |-> occurrences]]
  /\ UNCHANGED <<collectorVars, debugVars>>

Started == storeClock + Cardinality({w \in Workers : recordCalls[w] # NoCall})

(* a worker starts a recordError call *)
RecordBegin(w, report) ==
  /\ recordCalls[w] = NoCall
  /\ Started < MaxRecords
  /\ recordCalls' = [recordCalls EXCEPT ![w] = Call(report, storeClock)]
  /\ UNCHANGED <<collectorVars, debugVars, groups, occurrences, storeClock, completed,
                 response, storeLast>>

(* the worker's call runs its upsert and returns *)
RecordUpsert(w) ==
  /\ recordCalls[w] # NoCall
  /\ recordCalls' = [recordCalls EXCEPT ![w] = NoCall]
  /\ StoreCommit(recordError(Store, recordCalls[w].report), "recordError",
                 fingerprint(recordCalls[w].report), recordCalls[w],
                 <<fingerprint(recordCalls[w].report)>>)
  /\ UNCHANGED response

Resolve(fp) ==
  /\ StoreCommit(resolve(Store, fp), "resolve", fp, fp, <<>>)
  /\ UNCHANGED <<recordCalls, response>>

Delete(fp) ==
  /\ StoreCommit(delete(Store, fp), "delete", fp, fp, <<>>)
  /\ UNCHANGED <<recordCalls, response>>

ClearResolved ==
  /\ StoreCommit(clearResolved(Store), "clearResolved", <<>>, <<>>, <<>>)
  /\ UNCHANGED <<recordCalls, response>>

(* a client posts a batch to the ingestion endpoint *)
PostBatch(body) ==
  /\ Started + Len(body.errors) <= MaxRecords
  /\ LET r == log_frontend_error(Store, body)
     IN  /\ StoreCommit(r.store, "post", <<>>, body,
                        [j \in 1..(r.store.clock - storeClock) |-> fingerprint(body.errors[j])])
         /\ response' = r.response
  /\ UNCHANGED recordCalls

(* ------------- SpecStore: concurrent recording and triage --------------- *)
StoreFingerprints == {fingerprint(r) : r \in StoreReports}

NextStore ==
  \/ \E w \in Workers, r \in StoreReports : RecordBegin(w, r)
  \/ \E w \in Workers : RecordUpsert(w)
  \/ \E fp \in StoreFingerprints : Resolve(fp)
  \/ \E fp \in StoreFingerprints : Delete(fp)
  \/ ClearResolved

SpecStore == Init /\ [][NextStore]_vars

(* ------------- SpecRecreate: one fingerprint recorded, removed, recorded - *)
NextRecreate ==
  \/ \E w \in Workers, r \in {ReportA, ReportB} : RecordBegin(w, r)
  \/ \E w \in Workers : RecordUpsert(w)
  \/ Resolve(fingerprint(ReportA))
  \/ Delete(fingerprint(ReportA))
  \/ ClearResolved

SpecRecreate == Init /\ [][NextRecreate]_vars

(* ------------- SpecGrouping: which reports share a group ---------------- *)
NextGrouping ==
  \/ \E r \in GroupingReports : RecordBegin(1, r)
  \/ RecordUpsert(1)

SpecGrouping == Init /\ [][NextGrouping]_vars

(* ------------- SpecIngest: batches posted to the endpoint --------------- *)
NextIngest ==
  \/ \E b \in Batches({ReportA, ReportB}) : PostBatch(Wrapped(b))
  \/ \E b \in Batches({ReportA, ReportB}) : PostBatch(Bare(b))
  \/ Resolve(fingerprint(ReportA))

SpecIngest == Init /\ [][NextIngest]_vars

(* =============================== claims ================================ *)
Range(s) == {s[j] : j \in 1..Len(s)}

FlushOps == {"timer", "beforeunload", "pagehide", "ErrorCollector.flush"}

(* the instances whose flushErrors the last handler called *)
FlushedInsts == IF last.op \in {"beforeunload", "pagehide"} THEN 1..loads ELSE {last.inst}

(* where report `id` occurs in the batches handed to the transport *)
SentPlaces(id) ==
  {p \in UNION {{<<k, j>> : j \in 1..Len(sent[k].body.errors)} : k \in 1..Len(sent)} :
     sent[p[1]].body.errors[p[2]].id = id}

PendingIds == UNION {{r.id : r \in Range(pendingErrors[i])} : i \in Inst}

BatchIds(k) == {r.id : r \in Range(sent[k].body.errors)}

(* every report queued so far that was not lost: pending or handed to the transport *)
AllReports ==
  UNION {Range(pendingErrors[i]) : i \in Inst}
    \cup UNION {Range(sent[k].body.errors) : k \in 1..Len(sent)}

ReportsOf(c) == {r \in AllReports : r.cause = c}

(* C1: whatever the interleaving of flush triggers, a queued report is handed  *)
(* to the transport in at most one batch, at most once, and a report that was  *)
(* handed over is no longer pending (the list is drained before the send).     *)
C1_SentAtMostOnce ==
  \A id \in 1..nextId :
    /\ Cardinality(SentPlaces(id)) <= 1
    /\ SentPlaces(id) # {} => id \notin PendingIds

(* two different flushes have each sent a batch, the second on a page unload *)
C1_Witness ==
  /\ Len(sent) >= 2
  /\ last.op = "beforeunload"
  /\ last.sends = 1

(* C2: when the window.onerror handler or the unhandledrejection handler       *)
(* returns, the pending list is empty (the report it queued was flushed).      *)
C2_CriticalFlushedAtOnce ==
  last.op \in {"window.onerror", "unhandledrejection"} =>
    \A i \in 1..loads : pendingErrors[i] = <<>>

(* C3: the pending list never holds more reports than the configured cap.  The *)
(* collector configures a single cap, MAX_CONSOLE_LOGS; the pending list has   *)
(* none of its own, so the claim is stated with that one.                      *)
C3_PendingWithinCap ==
  \A i \in Inst : Len(pendingErrors[i]) <= MAX_CONSOLE_LOGS

(* C4: the console ring buffer holds at most MAX_CONSOLE_LOGS entries and is   *)
(* always the most recent min(n, MAX_CONSOLE_LOGS) captured entries, in call   *)
(* order.                                                                      *)
C4_RingIsRecentWindow ==
  \A i \in Inst :
    /\ Len(consoleLogs[i]) = Min(Len(captured[i]), MAX_CONSOLE_LOGS)
    /\ \A j \in 1..Len(consoleLogs[i]) :
         consoleLogs[i][j] = captured[i][Len(captured[i]) - Len(consoleLogs[i]) + j]

(* two entries have been evicted from a full buffer *)
C4_Witness ==
  /\ Len(captured[1]) = MAX_CONSOLE_LOGS + 2
  /\ Len(consoleLogs[1]) = MAX_CONSOLE_LOGS
  /\ consoleLogs[1][1].seq = 3

(* C5: after any number of initializations one console.error call queues       *)
(* exactly one ConsoleError report and one failing fetch queues exactly one    *)
(* report.                                                                     *)
C5_InitIdempotent ==
  /\ last.op = "console.error" => last.queued = 1
  /\ \A c \in 1..Len(calls) :
       (calls[c].owner = "app" /\ calls[c].orig.st = "rejected" /\ calls[c].seen.st # "inflight")
         => Cardinality(ReportsOf(c)) = 1

(* the reports the last handler queued *)
QueuedByLast == {r \in AllReports : r.id > nextId - last.queued}

(* C6: the reports of a batch whose send failed are not pending again and are  *)
(* in no other batch, and the rejection of the fallback request goes no        *)
(* further than the flush: it never surfaces as an unhandled rejection.        *)
C6_FailedBatchDropped ==
  /\ \A k \in 1..Len(sent) :
       sent[k].outcome \in {"refused", "failed"} =>
         /\ BatchIds(k) \cap PendingIds = {}
         /\ \A k2 \in 1..Len(sent) : k2 # k => BatchIds(k) \cap BatchIds(k2) = {}
  /\ last.op = "send.settle" => \A r \in QueuedByLast : r.source # "unhandledrejection"

(* a send failed and a later flush sent another batch *)
C6_Witness ==
  \E k \in 1..Len(sent) :
    /\ sent[k].outcome \in {"refused", "failed"}
    /\ k < Len(sent)
    /\ last.op \in FlushOps

(* C7: a flush that finds the pending list empty invokes no transport and      *)
(* leaves the list empty, whichever trigger started it.                        *)
C7_EmptyFlushSendsNothing ==
  (last.op \in FlushOps /\ \A i \in FlushedInsts : last.before[i] = 0) =>
    /\ last.sends = 0
    /\ \A i \in FlushedInsts : pendingErrors[i] = <<>>

(* an explicit flush ran on an empty list after earlier reports were sent *)
C7_Witness ==
  /\ last.op = "ErrorCollector.flush"
  /\ last.before[1] = 0
  /\ nextId > 0
  /\ Len(sent) > 0

(* C8: the caller of the wrapped fetch sees what the browser's fetch settled   *)
(* with: the same response when it resolved, the same error when it rejected.  *)
C8_SameOutcome ==
  \A c \in 1..Len(calls) :
    (calls[c].owner = "app" /\ calls[c].seen.st # "inflight") => calls[c].seen = calls[c].orig

(* the call has run to its end: the caller has the result, no body read is open *)
Completed(c) ==
  /\ calls[c].seen.st # "inflight"
  /\ \A k \in Inst : calls[c].reads[k] # "reading"

(* C9: a completed call whose response had a status >= 400 has queued exactly  *)
(* one report with source fetch, carrying the request URL, the status and an   *)
(* excerpt of the body of at most 500 characters.                              *)
C9_OneHttpReport ==
  \A c \in 1..Len(calls) :
    (/\ calls[c].owner = "app"
     /\ calls[c].orig.st = "resolved"
     /\ calls[c].orig.val.status >= 400
     /\ Completed(c))
    => /\ Cardinality(ReportsOf(c)) = 1
       /\ \A r \in ReportsOf(c) :
            /\ r.source = "fetch"
            /\ r.request_url = calls[c].input.href
            /\ r.http_status = calls[c].orig.val.status
            /\ r.response_body \in 0..BodyExcerptLen

ArgText(a) ==
  IF a.kind = "string" THEN a.text
  ELSE IF a.kind = "object" THEN a.json
  ELSE "[object Object]"

(* the texts of all arguments, joined by single spaces *)
RECURSIVE SpaceJoined(_, _)
SpaceJoined(args, n) ==
  IF n = 0 THEN ""
  ELSE IF n = 1 THEN ArgText(args[1])
  ELSE SpaceJoined(args, n - 1) \o " " \o ArgText(args[n])

IsConsoleOp == \E type \in ConsoleTypes : last.op = "console." \o type

(* C11: a call of a wrapped console function reaches the original function     *)
(* exactly once, with the arguments of the call; a console.error call queues   *)
(* exactly one report, of type ConsoleError, whose message is the space-joined *)
(* serialization of the arguments; a console.log, console.warn or console.info *)
(* call queues none.                                                           *)
C11_ConsoleForwardedAndReported ==
  IsConsoleOp =>
    /\ last.native = <<last.input>>
    /\ IF last.op = "console.error"
       THEN /\ last.queued = 1
            /\ \A r \in QueuedByLast :
                 /\ r.error_type = "ConsoleError"
                 /\ r.source = "console.error"
                 /\ r.error_message = SpaceJoined(last.input, Len(last.input))
       ELSE last.queued = 0

(* console.error("user", {id: 7}) has run *)
C11_Witness ==
  /\ last.op = "console.error"
  /\ Len(last.input) = 2
  /\ last.native = <<last.input>>
  /\ \E r \in QueuedByLast : r.error_message = "user {\"id\":7}"

(* JSON.stringify throws on one of the arguments of the last console call *)
LastCallHasCyclicArg ==
  IsConsoleOp /\ \E j \in 1..Len(last.input) :
                   last.input[j].kind \in {"circular", "bare-circular"}

(* C12: a console call with an argument JSON cannot serialize returns normally *)
(* to the application, records its buffer entry and reaches the original       *)
(* console function.                                                           *)
C12_SerializationFailureContained ==
  LastCallHasCyclicArg =>
    /\ last.threw = NoVal
    /\ last.logged = 1
    /\ last.native = <<last.input>>

(* C13: the console snapshot of a report is the last min(20, k) entries, in    *)
(* order, of the ring buffer as it stood when the report was queued (k its     *)
(* length then), so it never has more than SnapshotLen entries; console calls  *)
(* made afterwards leave it as it is.                                          *)
C13_SnapshotIsRecentTail ==
  \A r \in AllReports :
    LET k == Min(r.logsAt, MAX_CONSOLE_LOGS)
        len == Min(SnapshotLen, k)
    IN /\ Len(r.console_logs) <= SnapshotLen
       /\ r.console_logs = SubSeq(captured[r.inst], r.logsAt - len + 1, r.logsAt)

(* a report was queued when the ring buffer was full, and the console was *)
(* called again afterwards                                                *)
C13_Witness ==
  \E r \in AllReports :
    /\ r.logsAt > MAX_CONSOLE_LOGS
    /\ Len(captured[r.inst]) > r.logsAt
    /\ Len(r.console_logs) = SnapshotLen
    /\ r.console_logs[SnapshotLen].type = "error"

(* the batches the last handler handed to the transport *)
SentByLast == {k \in 1..Len(sent) : k > Len(sent) - last.sends}

(* C14: when beforeunload or pagehide fires, every instance's pending reports *)
(* are handed to the transport as one batch and its pending list is empty     *)
(* afterwards; a teardown signal that follows another one directly sends      *)
(* nothing.                                                                   *)
C14_TeardownSendsAll ==
  last.op \in TeardownOps =>
    /\ \A i \in 1..loads : pendingErrors[i] = <<>>
    /\ last.sends = Cardinality({i \in 1..loads : last.before[i] > 0})
    /\ \A i \in 1..loads :
         last.before[i] > 0 =>
           \E k \in SentByLast :
             sent[k].inst = i /\ Len(sent[k].body.errors) = last.before[i]
    /\ last.prev.op \in TeardownOps => last.sends = 0

(* beforeunload sent a batch of two reports and pagehide, fired next, sent none *)
C14_Witness ==
  /\ last.op = "pagehide"
  /\ last.prev = [op |-> "beforeunload", sends |-> 1]
  /\ last.sends = 0
  /\ Len(sent) >= 1
  /\ Len(sent[Len(sent)].body.errors) = 2

(* C15: while the interval timer keeps firing, a pending report is eventually *)
(* handed to the transport, in exactly one batch and never in a second one,   *)
(* and the first timer, unload or explicit flush that runs while a report is  *)
(* pending is the one that hands it over.                                     *)
C15_EveryReportSentOnce ==
  /\ \A id \in 1..MaxReports :
       (id \in PendingIds) ~> (id \notin PendingIds /\ Cardinality(SentPlaces(id)) = 1)
  /\ [](\A id \in 1..nextId : Cardinality(SentPlaces(id)) <= 1)
  /\ [][\A id \in PendingIds : last'.op \in FlushOps => (SentPlaces(id) # {})']_vars

(* two reports that triggered no flush waited for the timer, which sent them *)
C15_Witness ==
  /\ last.op = "timer"
  /\ last.before[1] = 2
  /\ last.sends = 1
  /\ pendingErrors[1] = <<>>

(* C16: the body of every batch handed to the transport is an object with the *)
(* single key errors, holding a non-empty sequence of reports in the order in  *)
(* which they were queued; the batches of an instance follow the queue order   *)
(* too: every report of an earlier batch was queued before every report of a   *)
(* later one.                                                                  *)
C16_BatchWrappedAndOrdered ==
  /\ \A k \in 1..Len(sent) :
       /\ DOMAIN sent[k].body = {"errors"}
       /\ Len(sent[k].body.errors) >= 1
       /\ \A j, j2 \in 1..Len(sent[k].body.errors) :
            j < j2 => sent[k].body.errors[j].id < sent[k].body.errors[j2].id
  /\ \A k, k2 \in 1..Len(sent) :
       (k < k2 /\ sent[k].inst = sent[k2].inst) =>
         \A id \in BatchIds(k), id2 \in BatchIds(k2) : id < id2

(* one flush handed over two reports of different sources as one batch *)
C16_Witness ==
  \E k \in 1..Len(sent) :
    /\ Len(sent[k].body.errors) = 2
    /\ sent[k].body.errors[1].source # sent[k].body.errors[2].source

(* the host function received the arguments of the last showToast call once *)
(* and the caller got what it returned                                       *)
ToastPassedThrough ==
  /\ last.host = 1
  /\ last.ret = HostToastResult(last.input[1], last.input[2], last.input[3])

OneToastReport ==
  /\ last.queued = 1
  /\ \A r \in QueuedByLast :
       /\ r.error_type = "ToastError"
       /\ r.source = "toast"
       /\ r.error_message = last.input[2] \o ": " \o last.input[3]

(* C17, as stated: every call of an existing window.showToast with level error *)
(* or warning queues exactly one ToastError report, a call with another level  *)
(* queues none, and every call reaches the host function once and returns its  *)
(* result.                                                                     *)
C17_ToastWrapped ==
  last.op = "showToast" =>
    /\ ToastPassedThrough
    /\ IF last.input[1] \in {"error", "warning"} THEN OneToastReport ELSE last.queued = 0

(* C17, amended: the same for a window.showToast that was a function when     *)
(* DOMContentLoaded fired, and for the calls made after that; a function the  *)
(* host installs later, or a call made before DOMContentLoaded, queues no     *)
(* report and reaches the host function all the same.                         *)
C17_ToastWrappedAtDomReady ==
  last.op = "showToast" =>
    /\ ToastPassedThrough
    /\ IF showToast.wrappers # <<>> /\ last.input[1] \in {"error", "warning"}
       THEN OneToastReport
       ELSE last.queued = 0

(* a warning toast went through the wrapper installed at DOMContentLoaded *)
C17_Witness ==
  /\ last.op = "showToast"
  /\ last.input[1] = "warning"
  /\ showToast.wrappers = <<1>>
  /\ last.queued = 1
  /\ last.host = 1

(* C18: ErrorCollector.report(type, message, extra) queues exactly one report, *)
(* with source manual and the given type and message, at the end of the        *)
(* pending list (or, when the type triggers the immediate flush, at the end of *)
(* the batch sent at once), and that report is eventually part of exactly one  *)
(* batch handed to the transport, never of two.                                *)
C18_ManualReportQueuedAndSent ==
  /\ [](last.op = "ErrorCollector.report" =>
         /\ last.queued = 1
         /\ \/ /\ pendingErrors[last.inst] # <<>>
               /\ pendingErrors[last.inst][Len(pendingErrors[last.inst])].id = nextId
            \/ /\ last.sends = 1
               /\ sent[Len(sent)].body.errors[Len(sent[Len(sent)].body.errors)].id = nextId
         /\ \A r \in QueuedByLast :
              /\ r.source = "manual"
              /\ r.error_type = last.input[1]
              /\ r.error_message = last.input[2])
  /\ [](\A id \in 1..nextId : Cardinality(SentPlaces(id)) <= 1)
  /\ \A id \in 1..MaxReports :
       (last.op = "ErrorCollector.report" /\ nextId = id) ~> (Cardinality(SentPlaces(id)) = 1)

(* C19: the handler the host page had bound to window.onerror before the     *)
(* collector loaded is still invoked, once, for every uncaught exception, and *)
(* the handling of the exception does not suppress the browser's default      *)
(* handling (no handler returns true).                                        *)
C19_HostOnerrorKept ==
  last.op = "window.onerror" =>
    /\ last.host = 1
    /\ last.ret # "true"

(* the transport took batch k: sendBeacon queued it, or the fallback request *)
(* was answered                                                              *)
Accepted(k) == sent[k].outcome \in {"queued", "delivered"}

(* the send of batch k failed: sendBeacon refused it, or the fallback request *)
(* was rejected                                                               *)
Failed(k) == sent[k].outcome \in {"refused", "failed"}

Delivered(id) == \E k \in 1..Len(sent) : id \in BatchIds(k) /\ Accepted(k)

(* C20, as stated: every queued report is eventually delivered to the sink,   *)
(* also when the send of the batch that carried it fails.                     *)
C20_AtLeastOnceDelivery ==
  \A id \in 1..MaxReports : [](id <= nextId => <>Delivered(id))

(* C20, amended: delivery is at most once.  A queued report is delivered by   *)
(* at most one batch, and a report of a batch whose send failed is never      *)
(* delivered: it is not sent again.                                           *)
C20_AtMostOnceDelivery ==
  \A id \in 1..nextId :
    /\ Cardinality({k \in 1..Len(sent) : id \in BatchIds(k) /\ Accepted(k)}) <= 1
    /\ (\E k \in 1..Len(sent) : id \in BatchIds(k) /\ Failed(k)) => ~Delivered(id)

(* the fallback request of one batch was rejected, a later batch was delivered *)
C20_Witness ==
  \E k, k2 \in 1..Len(sent) :
    /\ k < k2
    /\ sent[k].outcome = "failed"
    /\ sent[k2].outcome = "delivered"


(* =========================== claims: the store =========================== *)
GroupsOf(f) == {g \in groups : g.fingerprint = f}

RowsOf(rows, f) == SelectSeq(rows, LAMBDA o : o.fingerprint = f)

(* C21: under any interleaving of recordError calls there is at most one     *)
(* ErrorGroup per fingerprint, and the group's occurrenceCount is the number *)
(* of recordError calls completed for the fingerprint since the group was    *)
(* created                                                                   *)
C21_OneGroupNoLostUpdate ==
  \A f \in Fingerprints :
    /\ Cardinality(GroupsOf(f)) <= 1
    /\ \A g \in GroupsOf(f) : g.occurrenceCount = completed[f]

(* two calls for one fingerprint that both started on the empty store have *)
(* both completed                                                          *)
C21_Witness ==
  /\ storeLast.op = "recordError"
  /\ storeLast.input.startedAt = 0
  /\ storeClock = 2
  /\ \E g \in GroupsOf(storeLast.fp) : g.firstSeen = 1 /\ g.occurrenceCount = 2

(* C22: each group's occurrenceCount equals the number of occurrence rows     *)
(* referencing its fingerprint, and a fingerprint recorded N times has exactly *)
(* one group, with occurrenceCount N and N rows                                *)
C22_CountEqualsRows ==
  /\ \A g \in groups : g.occurrenceCount = Len(RowsOf(occurrences, g.fingerprint))
  /\ \A f \in Fingerprints :
       completed[f] > 0 =>
         \E g \in groups : /\ GroupsOf(f) = {g}
                           /\ g.occurrenceCount = completed[f]
                           /\ Len(RowsOf(occurrences, f)) = completed[f]

C22_Witness ==
  \E g \in groups : g.occurrenceCount = 3 /\ Len(RowsOf(occurrences, g.fingerprint)) = 3

(* whether seq s starts with seq p *)
IsPrefix(p, s) == Len(p) <= Len(s) /\ \A j \in 1..Len(p) : s[j] = p[j]

(* C23: a recordError for the fingerprint of a resolved group leaves the     *)
(* group unresolved, its occurrenceCount one higher, its firstSeen and the   *)
(* earlier occurrences unchanged; and a group is resolved only from an       *)
(* explicit resolve to the next matching occurrence                          *)
C23_RecurrenceReopens ==
  /\ storeLast.op = "recordError" =>
       \A g \in storeLast.before.groups :
         (g.fingerprint = storeLast.fp /\ g.resolved) =>
           /\ \E h \in groups : /\ h.id = g.id
                                /\ ~h.resolved
                                /\ h.occurrenceCount = g.occurrenceCount + 1
                                /\ h.firstSeen = g.firstSeen
           /\ IsPrefix(storeLast.before.occurrences, occurrences)
  /\ \A g \in groups : g.resolved => g.resolvedAt # NoNum /\ g.resolvedAt >= g.lastSeen

C23_Witness ==
  /\ storeLast.op = "recordError"
  /\ \E g \in storeLast.before.groups : g.fingerprint = storeLast.fp /\ g.resolved

(* C24: every occurrence row has a parent group: delete and clearResolved *)
(* remove the rows of the groups they remove, and recordError never adds  *)
(* a row without a group                                                  *)
C24_NoOrphanOccurrence ==
  \A j \in 1..Len(occurrences) : GroupsOf(occurrences[j].fingerprint) # {}

(* delete removed a group that had rows while another group's rows stayed *)
C24_Witness ==
  /\ storeLast.op = "delete"
  /\ RowsOf(storeLast.before.occurrences, storeLast.fp) # <<>>
  /\ occurrences # <<>>

(* C25: while a group exists every step leaves its occurrenceCount unchanged *)
(* or raises it by exactly one, and it rises only in a recordError for the   *)
(* group's fingerprint                                                       *)
C25_CountStepsByOne ==
  \A g \in storeLast.before.groups : \A h \in groups :
    h.id = g.id =>
      \/ h.occurrenceCount = g.occurrenceCount
      \/ /\ h.occurrenceCount = g.occurrenceCount + 1
         /\ storeLast.op = "recordError"
         /\ storeLast.fp = g.fingerprint

(* a call raised the counter while another call for the fingerprint was running *)
C25_Witness ==
  /\ storeLast.op = "recordError"
  /\ \E g \in storeLast.before.groups : \E h \in groups :
       h.id = g.id /\ h.occurrenceCount = g.occurrenceCount + 1
  /\ \E w \in Workers : /\ recordCalls[w] # NoCall
                        /\ fingerprint(recordCalls[w].report) = storeLast.fp

(* C26: clearResolved removes exactly the groups that were resolved, with   *)
(* their occurrences, and leaves every unresolved group and its occurrences *)
(* as they were                                                             *)
C26_ClearResolvedFrame ==
  storeLast.op = "clearResolved" =>
    /\ groups \subseteq storeLast.before.groups
    /\ \A g \in storeLast.before.groups :
         /\ g.resolved => g \notin groups /\ RowsOf(occurrences, g.fingerprint) = <<>>
         /\ ~g.resolved =>
              /\ g \in groups
              /\ RowsOf(occurrences, g.fingerprint)
                   = RowsOf(storeLast.before.occurrences, g.fingerprint)

C26_Witness ==
  /\ storeLast.op = "clearResolved"
  /\ \E g \in storeLast.before.groups : g.resolved
  /\ \E g \in storeLast.before.groups :
       ~g.resolved /\ RowsOf(occurrences, g.fingerprint) # <<>>

(* the group(s) holding occurrence row j *)
GroupOfRow(j) == GroupsOf(occurrences[j].fingerprint)

SameRoot(a, b) == NormalizeMessage(a.error_message) = NormalizeMessage(b.error_message)

(* reports alike in category, error type and normalized message share one    *)
(* group, whose count is the number of their rows, and each row keeps the    *)
(* report it was recorded from                                               *)
AlikeShareGroup ==
  /\ \A i, j \in 1..Len(occurrences) :
       LET a == occurrences[i].report
           b == occurrences[j].report
       IN  (a.category = b.category /\ a.error_type = b.error_type /\ SameRoot(a, b)) =>
             /\ GroupOfRow(i) = GroupOfRow(j)
             /\ \E g \in groups :
                  /\ GroupOfRow(i) = {g}
                  /\ g.occurrenceCount = Len(RowsOf(occurrences, g.fingerprint))
  /\ storeLast.op = "recordError" =>
       occurrences[Len(occurrences)].report = storeLast.input.report

(* C27 as stated: reports alike in category, errorType and normalized message *)
(* are recorded into one group, and reports with a different errorType or a   *)
(* different root message into different groups                               *)
C27_GroupingBySignature ==
  /\ AlikeShareGroup
  /\ \A i, j \in 1..Len(occurrences) :
       LET a == occurrences[i].report
           b == occurrences[j].report
       IN  (a.error_type # b.error_type \/ ~SameRoot(a, b)) =>
             GroupOfRow(i) \cap GroupOfRow(j) = {}

(* C27 amended: reports alike in category, errorType and normalized message  *)
(* are recorded into one group, and reports whose error types differ by more *)
(* than letter case, or whose root messages differ, into different groups    *)
C27_GroupingByFoldedSignature ==
  /\ AlikeShareGroup
  /\ \A i, j \in 1..Len(occurrences) :
       LET a == occurrences[i].report
           b == occurrences[j].report
       IN  (Lower(a.error_type) # Lower(b.error_type) \/ ~SameRoot(a, b)) =>
             GroupOfRow(i) \cap GroupOfRow(j) = {}

(* two reports differing in page URL, timestamp, stack, line number and *)
(* address share a group, next to a group of another error type         *)
C27_Witness ==
  /\ \E i, j \in 1..Len(occurrences) :
       /\ occurrences[i].report.page_url # occurrences[j].report.page_url
       /\ occurrences[i].report.error_message # occurrences[j].report.error_message
       /\ GroupOfRow(i) = GroupOfRow(j)
       /\ \E g \in GroupOfRow(i) : g.occurrenceCount = 2
  /\ \E i, j \in 1..Len(occurrences) :
       /\ Lower(occurrences[i].report.error_type) # Lower(occurrences[j].report.error_type)
       /\ GroupOfRow(i) # GroupOfRow(j)

(* C28: a bare array posted to the ingestion endpoint is processed as if it *)
(* were wrapped, or rejected with a client error status and the store left  *)
(* unchanged                                                                *)
C28_BareArrayHandled ==
  (storeLast.op = "post" /\ storeLast.input.shape = "array") =>
    \/ /\ response.status = 200
       /\ Len(occurrences)
            = Len(storeLast.before.occurrences) + Len(storeLast.input.errors)
    \/ /\ response.status \in 400..499
       /\ groups = storeLast.before.groups
       /\ occurrences = storeLast.before.occurrences

(* ========================= claims: the debug button ======================== *)
FabVisible == fabEl.built /\ fabEl.display = ""

(* C29 as stated: once the UI is built, in errors-only mode the FAB is visible *)
(* exactly from the first JS error event, console.error call or unhandled      *)
(* rejection since the logs were last cleared (also one from before the UI was *)
(* built), and with alwaysVisible it is visible in every state                 *)
C29_FabFollowsErrorEvents ==
  uiReady =>
    IF cfg.alwaysVisible THEN FabVisible
    ELSE FabVisible <=> debugHist.events > 0

(* C29 amended: once the UI is built, in errors-only mode with maxLogs at     *)
(* least 1 the FAB is visible exactly from the first error logged since the   *)
(* logs were last cleared (also one logged before the UI was built), whatever *)
(* logged it; with alwaysVisible it is visible in every state                 *)
C29_FabFollowsLoggedErrors ==
  uiReady =>
    IF cfg.alwaysVisible THEN FabVisible
    ELSE cfg.maxLogs >= 1 => (FabVisible <=> debugHist.logged > 0)

(* an error logged while the document was loading shows the FAB when the UI is built *)
C29_Witness ==
  /\ debugHist.op = "DOMContentLoaded"
  /\ uiReady
  /\ ~cfg.alwaysVisible
  /\ debugHist.events > 0
  /\ FabVisible

(* the last n elements of s *)
LastN(s, n) == SubSeq(s, Len(s) - n + 1, Len(s))

(* C30: the console log and the error log each hold at most maxLogs entries  *)
(* (500 unless configured), namely the most recent min(n, maxLogs) of the n  *)
(* entries added since the logs were last cleared, in arrival order          *)
C30_LogsKeepMostRecent ==
  /\ "maxLogs" \notin DOMAIN debugHist.config => cfg.maxLogs = 500
  /\ Len(consoleLog) <= cfg.maxLogs
  /\ Len(errorLog) <= cfg.maxLogs
  /\ consoleLog = LastN(debugHist.arrivedConsole,
                        Min(Len(debugHist.arrivedConsole), cfg.maxLogs))
  /\ errorLog = LastN(debugHist.arrivedErrors,
                      Min(Len(debugHist.arrivedErrors), cfg.maxLogs))

(* both logs are full and have evicted an entry *)
C30_Witness ==
  /\ cfg.maxLogs >= 1
  /\ Len(debugHist.arrivedConsole) > cfg.maxLogs
  /\ Len(debugHist.arrivedErrors) > cfg.maxLogs
  /\ Len(consoleLog) = cfg.maxLogs
  /\ Len(errorLog) = cfg.maxLogs

(* C33: a flush, and the settling of the request a flush started, queue no    *)
(* report and add no console-buffer entry whether the send succeeds or fails; *)
(* the pending list a flush has drained is still empty after its request has  *)
(* settled.                                                                   *)
C33_DeliveryQueuesNothing ==
  /\ last.op \in FlushOps =>
       /\ last.queued = 0
       /\ last.logged = 0
       /\ \A i \in FlushedInsts : pendingErrors[i] = <<>>
  /\ last.op = "send.settle" =>
       /\ last.queued = 0
       /\ last.logged = 0
       /\ \A i \in Inst : Len(pendingErrors[i]) = last.before[i]

(* the fallback request of a flush has failed and nothing is pending *)
C33_Witness ==
  /\ last.op = "send.settle"
  /\ \E k \in 1..Len(sent) : sent[k].via = "fetch" /\ sent[k].outcome = "failed"
  /\ pendingErrors[1] = <<>>
  /\ Len(consoleLogs[1]) > 0

(* the reports that are pending, and those the last handler queued *)
PendingReports == UNION {Range(pendingErrors[i]) : i \in Inst}

(* the last handler queued one report, not a critical one: it is the last of *)
(* its list, the list grew by one and no transport was invoked               *)
NonCriticalOnlyQueued ==
  (last.queued = 1 /\ \A r \in QueuedByLast : ~IsCritical(r)) =>
    /\ last.sends = 0
    /\ \A r \in QueuedByLast :
         /\ Len(pendingErrors[r.inst]) = last.before[r.inst] + 1
         /\ pendingErrors[r.inst][Len(pendingErrors[r.inst])] = r

(* C34 as stated: queuing a report that is not critical appends it, grows the *)
(* pending list by one and invokes no transport, and such a report leaves the *)
(* pending list only in a timer flush, an unload flush or an explicit flush.  *)
C34_PendingUntilTriggeredFlush ==
  /\ []NonCriticalOnlyQueued
  /\ [][\A r \in PendingReports :
          (~IsCritical(r) /\ r.id \notin PendingIds') => last'.op \in FlushOps]_vars

(* C34, amended: the same, and the report leaves the pending list only in a   *)
(* timer flush, an unload flush, an explicit flush or the flush that queuing  *)
(* a critical report starts.                                                  *)
C34_PendingUntilAnyFlush ==
  /\ []NonCriticalOnlyQueued
  /\ [][\A r \in PendingReports :
          (~IsCritical(r) /\ r.id \notin PendingIds') =>
            \/ last'.op \in FlushOps
            \/ \E q \in QueuedByLast' : IsCritical(q)]_vars

(* a report of a failed fetch and a toast report are pending, nothing sent *)
C34_Witness ==
  /\ Len(sent) = 0
  /\ \E r \in PendingReports : r.source = "fetch"
  /\ \E r \in PendingReports : r.source = "toast"
  /\ last.queued = 1

(* the browser's fetch answered call c with a status below 400 *)
AnsweredBelow400(c) ==
  /\ calls[c].owner = "app"
  /\ calls[c].orig.st = "resolved"
  /\ calls[c].orig.val.status < 400

(* C37: a wrapped fetch call answered with a status below 400 queues no       *)
(* report, and the step in which it is answered leaves the pending list, the  *)
(* console buffer and the transport untouched; every report with source fetch *)
(* belongs to a call that was rejected or answered with a status >= 400.      *)
C37_OnlyFailedFetchReported ==
  /\ [](/\ \A c \in 1..Len(calls) : AnsweredBelow400(c) => ReportsOf(c) = {}
        /\ \A r \in AllReports :
             r.source = "fetch" =>
               /\ r.cause \in 1..Len(calls)
               /\ \/ calls[r.cause].orig.st = "rejected"
                  \/ /\ calls[r.cause].orig.st = "resolved"
                     /\ calls[r.cause].orig.val.status >= 400)
  /\ [][\A c \in 1..Len(calls) :
          (calls[c].owner = "app" /\ calls[c].orig.st = "inflight"
             /\ calls'[c].orig.st = "resolved" /\ calls'[c].orig.val.status < 400)
          => /\ pendingErrors' = pendingErrors
             /\ consoleLogs' = consoleLogs
             /\ sent' = sent
             /\ nextId' = nextId]_vars

(* the caller has just received a redirect response (not ok, below 400) *)
(* while a report was pending, and the list is as it was                *)
C37_Witness ==
  \E c \in 1..Len(calls) :
    /\ AnsweredBelow400(c)
    /\ calls[c].orig.val.status = 302
    /\ calls[c].seen.st = "resolved"
    /\ last.op = "fetch.settle"
    /\ last.before[1] > 0
    /\ Len(pendingErrors[1]) = last.before[1]

(* the fingerprints of the groups the last operation removed *)
RemovedByLast ==
  {g.fingerprint : g \in storeLast.before.groups} \ {g.fingerprint : g \in groups}

(* C39: delete(fingerprint) and clearResolved() leave no group and no row of  *)
(* a removed fingerprint behind, and a recordError that finds no group for    *)
(* its fingerprint creates a fresh one: occurrenceCount 1, not resolved,      *)
(* first seen now, with exactly one occurrence row, the one just written.     *)
C39_RecordAfterDeleteStartsFresh ==
  /\ storeLast.op = "delete" =>
       GroupsOf(storeLast.fp) = {} /\ RowsOf(occurrences, storeLast.fp) = <<>>
  /\ storeLast.op \in {"delete", "clearResolved"} =>
       \A f \in RemovedByLast : RowsOf(occurrences, f) = <<>>
  /\ (/\ storeLast.op = "recordError"
      /\ \A g \in storeLast.before.groups : g.fingerprint # storeLast.fp) =>
       /\ Cardinality(GroupsOf(storeLast.fp)) = 1
       /\ \A g \in GroupsOf(storeLast.fp) :
            /\ g.occurrenceCount = 1
            /\ ~g.resolved
            /\ g.firstSeen = storeClock
            /\ g.lastSeen = storeClock
            /\ g \notin storeLast.before.groups
       /\ Len(RowsOf(occurrences, storeLast.fp)) = 1
       /\ RowsOf(occurrences, storeLast.fp)[1].occurredAt = storeClock
       /\ RowsOf(occurrences, storeLast.fp)[1].report = storeLast.input.report

(* every report of this run has the one fingerprint: the third recordError  *)
(* found no group and no row, so what the first two had recorded had been   *)
(* removed, and it has created a group with count 1 and one row             *)
C39_Witness ==
  /\ storeLast.op = "recordError"
  /\ storeLast.before.groups = {}
  /\ storeLast.before.occurrences = <<>>
  /\ storeClock = 3
  /\ \E g \in GroupsOf(storeLast.fp) : g.occurrenceCount = 1 /\ g.firstSeen = 3
  /\ Len(occurrences) = 1

(* C31: right after DebugButton.clear() both logs are empty and the error   *)
(* count is 0, and from then on each log holds as many entries as were      *)
(* captured since the clear, up to maxLogs.                                 *)
C31_ClearStartsOver ==
  /\ debugHist.op = "clear" =>
       /\ errorLog = <<>>
       /\ consoleLog = <<>>
       /\ errorCount = 0
  /\ debugButtonLoaded =>
       /\ Len(errorLog) = Min(Len(debugHist.arrivedErrors), cfg.maxLogs)
       /\ Len(consoleLog) = Min(Len(debugHist.arrivedConsole), cfg.maxLogs)

(* entries were cleared, and more errors than maxLogs were logged since *)
C31_Witness ==
  /\ debugHist.clock > Len(debugHist.arrivedErrors) + Len(debugHist.arrivedConsole)
  /\ Len(debugHist.arrivedErrors) > cfg.maxLogs
  /\ Len(errorLog) = SmallMaxLogs
  /\ errorLog[Len(errorLog)] = debugHist.arrivedErrors[Len(debugHist.arrivedErrors)]

(* C35: in every state of the loaded debug button errorCount is the length *)
(* of the error log and at most maxLogs, and once the badge exists it      *)
(* shows that number.                                                      *)
C35_CountIsLogLength ==
  debugButtonLoaded =>
    /\ errorCount = Len(errorLog)
    /\ errorCount <= cfg.maxLogs
    /\ fabEl.built => fabEl.badge = Len(errorLog)

(* the error log is full after an eviction and the badge shows its length *)
C35_Witness ==
  /\ fabEl.built
  /\ cfg.maxLogs = SmallMaxLogs
  /\ debugHist.logged > cfg.maxLogs
  /\ Len(errorLog) = cfg.maxLogs
  /\ fabEl.badge = cfg.maxLogs
  /\ debugHist.op = "testError"

(* what a second run of the script could touch: the script's variables, the *)
(* wrappers and listeners, and the UI                                       *)
debugScriptState ==
  <<debugButtonLoaded, cfg, errorLog, consoleLog, errorCount, fabEl, uiReady, initPending,
    debugInstalls, debugCon, fabOpen, modalShown>>

(* C32: the debug button's wrappers and listeners are installed at most once; *)
(* a further run of the script changes nothing of the first load's state;     *)
(* and one error event, one rejection or one console call adds exactly one    *)
(* entry to the log it belongs to.                                            *)
C32_SecondLoadIsNoOp ==
  /\ [](debugInstalls <= 1)
  /\ [][debugHist'.op = "load again" => UNCHANGED debugScriptState]_vars
  /\ [][(debugHist'.op \in {"error", "unhandledrejection"}
           /\ debugHist'.events = debugHist.events + 1)
          => Len(debugHist'.arrivedErrors) = Len(debugHist.arrivedErrors) + 1]_vars
  /\ [][(debugHist'.op = "console.log" /\ debugHist'.clock # debugHist.clock)
          => Len(debugHist'.arrivedConsole) = Len(debugHist.arrivedConsole) + 1]_vars

(* the script has run twice and the error event that followed added one entry *)
(* to the log the first run had started                                       *)
C32_Witness ==
  /\ debugHist.runs = 2
  /\ debugInstalls = 1
  /\ debugHist.op = "error"
  /\ Len(debugHist.arrivedErrors) = 2
  /\ Len(debugHist.arrivedConsole) = 1

(* C38: in every state after the debug button script has loaded, also before *)
(* the UI is built, DebugButton.show(), DebugButton.hide(),                  *)
(* DebugButton.clear() and an Escape key press complete without throwing.    *)
C38_PublicOperationsNeverThrow ==
  debugHist.op \in {"show", "hide", "clear", "keydown"} => debugHist.exc = NoVal

(* C36: with both scripts loaded, in either order, a console.error call       *)
(* reaches the browser's console.error once, with the caller's arguments,     *)
(* adds one entry to the collector's console buffer and one to the debug      *)
(* button's console log, queues one ConsoleError report and adds one entry to *)
(* the debug button's error log.                                              *)
C36_BothWrappersRunOnce ==
  [][(/\ debugButtonLoaded
      /\ last'.op = "console.error"
      /\ debugHist'.op = "console.error"
      /\ debugHist'.events = debugHist.events + 1)
     => /\ nativeConsole' = nativeConsole + 1
        /\ last'.native = <<last'.input>>
        /\ Len(captured'[1]) = Len(captured[1]) + 1
        /\ captured'[1][Len(captured'[1])].type = "error"
        /\ Len(debugHist'.arrivedConsole) = Len(debugHist.arrivedConsole) + 1
        /\ nextId' = nextId + 1
        /\ \A r \in QueuedByLast' : r.error_type = "ConsoleError"
        /\ Len(debugHist'.arrivedErrors) = Len(debugHist.arrivedErrors) + 1]_vars

(* the debug button was loaded first, so the collector's saved console is the *)
(* debug button's wrapper, and a console.error call has gone through both     *)
C36_Witness ==
  /\ debugButtonLoaded
  /\ debugCon = 0
  /\ last.op = "console.error"
  /\ debugHist.op = "console.error"
  /\ last.queued = 1
  /\ last.native = <<last.input>>
  /\ Len(debugHist.arrivedErrors) = 1
  /\ Len(debugHist.arrivedConsole) = 2

====
